---- MODULE Spec2Model ----
(***************************************************************************)
(* A model of the Spring Boot reverse-engineering scripts: the per-file    *)
(* component classifiers of the script variants, the project loop with the *)
(* external renderer, the diagram emitters, endpoint and table-name        *)
(* extraction, and SpringBootAnalyzer.analyze().                           *)
(*                                                                         *)
(* A source file is abstracted to its base name (stem), the directory it   *)
(* lies in and the set of marker substrings its text contains: the test    *)
(* `'@Service' in content` of the code is "@Service" \in f.content here.   *)
(***************************************************************************)
EXTENDS Integers, Sequences, FiniteSets, TLC

VARIABLES
    variant,          \* which script / function runs in this behaviour
    pc,               \* position of the running script
    scanned,          \* number of loop iterations over java_files done so far
    java_file,        \* the loop variable: the file processed by the last iteration
    components,       \* the category collections: key -> list of entries
    build_file,       \* scan_project: pom.xml / build.gradle exists in src_path
    dependencies,     \* validated-c4-diagrams: the dependency edges collected
    ref_components,   \* the collections of a scan of the listing without its failing files
    ref_dependencies, \* the edges of a scan of the listing without its failing files
    service_paths,    \* SpringBootAnalyzer.analyze: the project roots found
    root_idx,         \* analyze: index of the root under analysis
    service_name,     \* analyze: name extracted for the root under analysis
    props,            \* analyze: merged properties of the root under analysis
    services,         \* SpringBootAnalyzer.services
    exception,        \* the exception that left the running function, "" if none
    projects,         \* the project directories of input_dir, in listing order
    proj_idx,         \* index of the project the main loop is at
    analysed,         \* indices of the projects whose components were analysed
    written,          \* the diagram text files written: <<project index, diagram>>
    renderer_exit,    \* exit status of the renderer: <<project index, diagram>> -> status
    console,          \* the renderer failures reported on the console
    puml,             \* the diagram text under construction, by section
    total_components, \* the total the summary prints, -1 before the summary
    valid_relationships, \* create_c3_component_diagram: the relationships counted
    tree,             \* the source tree the script is run on
    outputs,          \* the listing produced by each run
    text,             \* the source text given to an extraction function
    extracted         \* what the extraction function returned

scanVars == <<scanned, java_file, components, build_file>>

failVars == <<dependencies, ref_components, ref_dependencies>>

analyzeVars == <<service_paths, root_idx, service_name, props, services>>

renderVars == <<projects, proj_idx, analysed, written, renderer_exit, console>>

diagramVars == <<puml, total_components, valid_relationships>>

runVars == <<tree, outputs>>

extractVars == <<text, extracted>>

vars ==
    <<variant, pc, exception, scanVars, failVars, analyzeVars, renderVars, diagramVars,
      runVars, extractVars>>

\* The values of the variables a script does not use.
ScanIdle == scanned = 0 /\ java_file = "" /\ components = <<>> /\ build_file = FALSE

FailIdle == dependencies = <<>> /\ ref_components = <<>> /\ ref_dependencies = <<>>

AnalyzeIdle ==
    /\ service_paths = <<>>
    /\ root_idx = 0
    /\ service_name = ""
    /\ props = <<>>
    /\ services = <<>>

RenderIdle ==
    /\ projects = <<>>
    /\ proj_idx = 0
    /\ analysed = {}
    /\ written = {}
    /\ renderer_exit = <<>>
    /\ console = <<>>

DiagramIdle == puml = <<>> /\ total_components = -1 /\ valid_relationships = 0

RunIdle == tree = <<>> /\ outputs = <<>>

ExtractIdle == text = <<>> /\ extracted = <<>>

\* Longest directory listing (number of *.java files) a scan walks.
MaxFiles == 2

(***************************************************************************)
(* Source files                                                            *)
(***************************************************************************)
\* Marker substrings occurring in the texts of the model: the six kinds of
\* annotation, the MVC controller annotation and the word "interface" that
\* the naming fallbacks test. The classifiers test for further substrings
\* (JpaRepository, @GetMapping, @Autowired, ...) that no text here holds.
Markers ==
    {"@RestController", "@Controller", "@Service", "@Repository", "@Entity",
     "@Configuration", "@Component", "interface"}

\* Texts holding at most two distinct marker substrings.
Contents == {a \cup b : a, b \in {{}} \cup {{m} : m \in Markers}}

Stems == {"Foo", "FooService", "FooController"}

Dirs == {"src/main/java"}

JavaFiles == [stem : Stems, dir : Dirs, content : Contents]

NoFile == [stem |-> "", dir |-> "", content |-> {}]

\* class_name.endswith(suffix), for the stems of the model.
EndsWith(stem, suffix) ==
    \/ stem = "FooService" /\ suffix = "Service"
    \/ stem = "FooController" /\ suffix = "Controller"
    \/ stem = "FooRepository" /\ suffix = "Repository"

\* `part in file_name`, file_name = stem + ".java".
NameContains(stem, part) ==
    \/ stem = "FooService" /\ part = "Service"
    \/ stem = "FooController" /\ part = "Controller"
    \/ stem = "FooRepository" /\ part = "Repository"

\* 'target' in str(java_file)
UnderTarget(f) == f.dir = "target/classes"

\* re.search(r'@(GetMapping|PostMapping|PutMapping|DeleteMapping|RequestMapping|PatchMapping)', content)
MappingMarkers ==
    {"@GetMapping", "@PostMapping", "@PutMapping", "@DeleteMapping",
     "@RequestMapping", "@PatchMapping"}

HasMapping(content) == content \cap MappingMarkers # {}

\* any(repo in content for repo in ['JpaRepository', 'CrudRepository', 'MongoRepository'])
HasRepoInterface(content) ==
    content \cap {"JpaRepository", "CrudRepository", "MongoRepository"} # {}

(***************************************************************************)
(* Category collections                                                    *)
(***************************************************************************)
\* An entry records the class name; `file` is the position of the file in
\* the directory listing (its identity: two files may share a stem).
Entry(f, idx, inf) == [name |-> f.stem, file |-> idx, inferred |-> inf]

Add(c, key, e) == [c EXCEPT ![key] = Append(@, e)]

NamesOf(list) == {list[i].name : i \in DOMAIN list}

FilesOf(list) == {list[i].file : i \in DOMAIN list}

EmptyComponents(keys) == [k \in keys |-> <<>>]

KeysComplete ==
    {"controllers", "rest_controllers", "services", "repositories", "jpa_repositories",
     "entities", "configs", "components", "rest_clients", "scheduled_tasks",
     "listeners", "aspects"}

KeysFour ==
    {"rest_controllers", "services", "repositories", "jpa_repositories", "entities",
     "configs", "components"}

KeysFixedAnalyze ==
    {"controllers", "services", "repositories", "entities", "configs",
     "rest_controllers", "mvc_controllers"}

KeysSpringBoot == {"services", "daos", "entities"}

KeysScanProject == {"components"}

\* The fallback by naming convention of complete-c4-analyzer.py.
InferComplete(c, f, idx) ==
    IF /\ \/ EndsWith(f.stem, "Service") \/ EndsWith(f.stem, "ServiceImpl")
          \/ EndsWith(f.stem, "Manager") \/ EndsWith(f.stem, "Processor")
       /\ "interface" \notin f.content
    THEN IF f.stem \notin NamesOf(c["services"])
         THEN Add(c, "services", Entry(f, idx, TRUE))
         ELSE c
    ELSE IF /\ \/ EndsWith(f.stem, "Controller") \/ EndsWith(f.stem, "Endpoint")
               \/ EndsWith(f.stem, "Resource")
            /\ "interface" \notin f.content
    THEN IF f.stem \notin NamesOf(c["rest_controllers"] \o c["controllers"])
         THEN Add(c, "rest_controllers", Entry(f, idx, TRUE))
         ELSE c
    ELSE IF HasMapping(f.content)
    THEN Add(c, "rest_controllers", Entry(f, idx, TRUE))
    ELSE c

\* ClassifyComplete with the elif chain turned into independent tests for
\* the controller and the service rule.
ClassifyCompleteIndependentIfs(c, f, idx) ==
    LET c1 == IF "@RestController" \in f.content
              THEN Add(c, "rest_controllers", Entry(f, idx, FALSE))
              ELSE c
    IN  IF "@Service" \in f.content THEN Add(c1, "services", Entry(f, idx, FALSE))
        ELSE IF "@RestController" \in f.content THEN c1
        ELSE IF "@Controller" \in f.content THEN Add(c, "controllers", Entry(f, idx, FALSE))
        ELSE IF "@Repository" \in f.content THEN Add(c, "repositories", Entry(f, idx, FALSE))
        ELSE IF HasRepoInterface(f.content) THEN Add(c, "jpa_repositories", Entry(f, idx, FALSE))
        ELSE IF "@Entity" \in f.content THEN Add(c, "entities", Entry(f, idx, FALSE))
        ELSE IF "@Configuration" \in f.content THEN Add(c, "configs", Entry(f, idx, FALSE))
        ELSE InferComplete(c, f, idx)

\* One iteration of the loop of analyze_spring_components, complete-c4-analyzer.py.
ClassifyComplete(c, f, idx) ==
    IF "@RestController" \in f.content THEN Add(c, "rest_controllers", Entry(f, idx, FALSE))
    ELSE IF "@Controller" \in f.content THEN Add(c, "controllers", Entry(f, idx, FALSE))
    ELSE IF "@Service" \in f.content THEN Add(c, "services", Entry(f, idx, FALSE))
    ELSE IF "@Repository" \in f.content THEN Add(c, "repositories", Entry(f, idx, FALSE))
    ELSE IF HasRepoInterface(f.content) THEN Add(c, "jpa_repositories", Entry(f, idx, FALSE))
    ELSE IF "@Entity" \in f.content THEN Add(c, "entities", Entry(f, idx, FALSE))
    ELSE IF "@Configuration" \in f.content THEN Add(c, "configs", Entry(f, idx, FALSE))
    ELSE InferComplete(c, f, idx)

\* One iteration of the loop of analyze_spring_components, fixed-c4-diagrams.py.
ClassifyFixedC4(c, f, idx) ==
    IF "@RestController" \in f.content THEN Add(c, "rest_controllers", Entry(f, idx, FALSE))
    ELSE IF "@Service" \in f.content THEN Add(c, "services", Entry(f, idx, FALSE))
    ELSE IF "@Repository" \in f.content THEN Add(c, "repositories", Entry(f, idx, FALSE))
    ELSE IF "JpaRepository" \in f.content THEN Add(c, "jpa_repositories", Entry(f, idx, FALSE))
    ELSE IF "@Entity" \in f.content THEN Add(c, "entities", Entry(f, idx, FALSE))
    ELSE IF "@Configuration" \in f.content THEN Add(c, "configs", Entry(f, idx, FALSE))
    ELSE c

\* One iteration of the loop of analyze_spring_components, c4-four-diagrams.py.
ClassifyFour(c, f, idx) ==
    IF "@RestController" \in f.content THEN Add(c, "rest_controllers", Entry(f, idx, FALSE))
    ELSE IF "@Service" \in f.content THEN Add(c, "services", Entry(f, idx, FALSE))
    ELSE IF "@Repository" \in f.content THEN Add(c, "repositories", Entry(f, idx, FALSE))
    ELSE IF "JpaRepository" \in f.content THEN Add(c, "jpa_repositories", Entry(f, idx, FALSE))
    ELSE IF "@Entity" \in f.content THEN Add(c, "entities", Entry(f, idx, FALSE))
    ELSE IF "@Configuration" \in f.content THEN Add(c, "configs", Entry(f, idx, FALSE))
    ELSE IF "@Component" \in f.content THEN Add(c, "components", Entry(f, idx, FALSE))
    ELSE c

\* One iteration of the scan loop of fixed-analyze.py: a controller goes to
\* its own list and to the aggregate list 'controllers'.
ClassifyFixedAnalyze(c, f, idx) ==
    IF "@RestController" \in f.content
    THEN Add(Add(c, "rest_controllers", Entry(f, idx, FALSE)), "controllers", Entry(f, idx, FALSE))
    ELSE IF "@Controller" \in f.content
    THEN Add(Add(c, "mvc_controllers", Entry(f, idx, FALSE)), "controllers", Entry(f, idx, FALSE))
    ELSE IF "@Service" \in f.content THEN Add(c, "services", Entry(f, idx, FALSE))
    ELSE IF "@Repository" \in f.content THEN Add(c, "repositories", Entry(f, idx, FALSE))
    ELSE IF "@Entity" \in f.content THEN Add(c, "entities", Entry(f, idx, FALSE))
    ELSE IF "@Configuration" \in f.content \/ "@Bean" \in f.content
    THEN Add(c, "configs", Entry(f, idx, FALSE))
    ELSE c

\* One iteration of the loop of SpringBootAnalyzer.extract_service_components:
\* three independent tests, a file under 'target' is skipped.
ServiceTest(f) == "@Service" \in f.content \/ EndsWith(f.stem, "Service")

DaoTest(f) ==
    "@Repository" \in f.content \/ EndsWith(f.stem, "DAO") \/ EndsWith(f.stem, "Repository")

EntityTest(f) == "@Entity" \in f.content \/ "@Table" \in f.content

ClassifySpringBoot(c, f, idx) ==
    IF UnderTarget(f) THEN c
    ELSE LET c1 == IF ServiceTest(f) THEN Add(c, "services", Entry(f, idx, FALSE)) ELSE c
             c2 == IF DaoTest(f) THEN Add(c1, "daos", Entry(f, idx, FALSE)) ELSE c1
         IN  IF EntityTest(f) THEN Add(c2, "entities", Entry(f, idx, FALSE)) ELSE c2

\* InferHybrid with a catch-all: a file no rule matches is kept as a generic
\* component.
InferHybridCatchAll(c, f, idx) ==
    IF /\ \/ EndsWith(f.stem, "Service") \/ EndsWith(f.stem, "Controller")
          \/ EndsWith(f.stem, "Repository")
       /\ "interface" \notin f.content
    THEN Add(c, IF EndsWith(f.stem, "Service") THEN "services" ELSE "rest_controllers",
             Entry(f, idx, TRUE))
    ELSE Add(c, "components", Entry(f, idx, TRUE))

\* The fallback by naming convention and injection markers of hybrid-analyze.py.
InferHybrid(c, f, idx) ==
    IF /\ \/ EndsWith(f.stem, "Service") \/ EndsWith(f.stem, "ServiceImpl")
          \/ EndsWith(f.stem, "Manager") \/ EndsWith(f.stem, "Processor")
       /\ "interface" \notin f.content
    THEN IF f.stem \notin NamesOf(c["services"])
         THEN Add(c, "services", Entry(f, idx, TRUE))
         ELSE c
    ELSE IF /\ \/ EndsWith(f.stem, "Controller") \/ EndsWith(f.stem, "Endpoint")
               \/ EndsWith(f.stem, "Resource")
            /\ "interface" \notin f.content
    THEN IF f.stem \notin NamesOf(c["rest_controllers"] \o c["controllers"])
         THEN Add(c, "rest_controllers", Entry(f, idx, TRUE))
         ELSE c
    ELSE IF EndsWith(f.stem, "Repository") /\ "interface" \in f.content
    THEN IF f.stem \notin NamesOf(c["repositories"] \o c["jpa_repositories"])
         THEN Add(c, "jpa_repositories", Entry(f, idx, TRUE))
         ELSE c
    ELSE IF HasMapping(f.content)
    THEN Add(c, "rest_controllers", Entry(f, idx, TRUE))
    ELSE IF /\ f.content \cap {"@Autowired", "@Inject", "@Resource"} # {}
            /\ "interface" \notin f.content
    THEN IF f.stem \notin NamesOf(c["services"] \o c["components"])
         THEN Add(c, "components", Entry(f, idx, TRUE))
         ELSE c
    ELSE c

\* The chain of hybrid_spring_analysis with the @Entity rule tested before
\* the @Service rule.
ClassifyHybridEntityFirst(c, f, idx) ==
    IF "@RestController" \in f.content THEN Add(c, "rest_controllers", Entry(f, idx, FALSE))
    ELSE IF "@Controller" \in f.content THEN Add(c, "controllers", Entry(f, idx, FALSE))
    ELSE IF "@Entity" \in f.content THEN Add(c, "entities", Entry(f, idx, FALSE))
    ELSE IF "@Service" \in f.content THEN Add(c, "services", Entry(f, idx, FALSE))
    ELSE IF "@Repository" \in f.content THEN Add(c, "repositories", Entry(f, idx, FALSE))
    ELSE IF HasRepoInterface(f.content) THEN Add(c, "jpa_repositories", Entry(f, idx, FALSE))
    ELSE IF "@Configuration" \in f.content THEN Add(c, "configs", Entry(f, idx, FALSE))
    ELSE IF "@Component" \in f.content THEN Add(c, "components", Entry(f, idx, FALSE))
    ELSE IF f.content \cap {"@FeignClient", "RestTemplate"} # {}
    THEN Add(c, "rest_clients", Entry(f, idx, FALSE))
    ELSE InferHybrid(c, f, idx)

\* One iteration of the loop of hybrid_spring_analysis, hybrid-analyze.py.
ClassifyHybrid(c, f, idx) ==
    IF "@RestController" \in f.content THEN Add(c, "rest_controllers", Entry(f, idx, FALSE))
    ELSE IF "@Controller" \in f.content THEN Add(c, "controllers", Entry(f, idx, FALSE))
    ELSE IF "@Service" \in f.content THEN Add(c, "services", Entry(f, idx, FALSE))
    ELSE IF "@Repository" \in f.content THEN Add(c, "repositories", Entry(f, idx, FALSE))
    ELSE IF HasRepoInterface(f.content) THEN Add(c, "jpa_repositories", Entry(f, idx, FALSE))
    ELSE IF "@Entity" \in f.content THEN Add(c, "entities", Entry(f, idx, FALSE))
    ELSE IF "@Configuration" \in f.content THEN Add(c, "configs", Entry(f, idx, FALSE))
    ELSE IF "@Component" \in f.content THEN Add(c, "components", Entry(f, idx, FALSE))
    ELSE IF f.content \cap {"@FeignClient", "RestTemplate"} # {}
    THEN Add(c, "rest_clients", Entry(f, idx, FALSE))
    ELSE InferHybrid(c, f, idx)

\* comp_type of scan_project (reveng-toolkit/analyzer.py): by file name only,
\* with a catch-all; every file is appended to the container's components.
CompType(f) ==
    IF EndsWith(f.stem, "Application") THEN "Spring Boot Application"
    ELSE IF NameContains(f.stem, "Controller") THEN "REST Controller"
    ELSE IF NameContains(f.stem, "Service") THEN "Business Service"
    ELSE IF NameContains(f.stem, "Repository") \/ NameContains(f.stem, "DAO")
    THEN "Data Repository"
    ELSE IF NameContains(f.stem, "Config") THEN "Configuration"
    ELSE IF NameContains(f.stem, "Entity") \/ NameContains(f.stem, "Model")
    THEN "Data Model"
    ELSE "Java Component"

ClassifyScanProject(c, f, idx) ==
    Add(c, "components", [name |-> f.stem, file |-> idx, desc |-> CompType(f)])

(***************************************************************************)
(* The classifier scans                                                    *)
(***************************************************************************)
Variants ==
    {"complete", "fixed_c4", "c4_four", "fixed_analyze", "springboot", "hybrid",
     "scan_project"}

KeysOf(v) ==
    CASE v = "complete" -> KeysComplete
      [] v = "hybrid" -> KeysComplete
      [] v = "fixed_c4" -> KeysFour
      [] v = "c4_four" -> KeysFour
      [] v = "fixed_analyze" -> KeysFixedAnalyze
      [] v = "springboot" -> KeysSpringBoot
      [] v = "scan_project" -> KeysScanProject

InitClassify ==
    /\ variant \in Variants
    /\ pc = "scan"
    /\ scanned = 0
    /\ java_file = NoFile
    /\ components = EmptyComponents(KeysOf(variant))
    /\ build_file \in IF variant = "scan_project" THEN BOOLEAN ELSE {FALSE}
    /\ exception = ""
    /\ FailIdle /\ AnalyzeIdle /\ RenderIdle /\ DiagramIdle /\ RunIdle /\ ExtractIdle

Step(v, f, c) ==
    /\ variant = v
    /\ pc = "scan"
    /\ scanned < MaxFiles
    /\ java_file' = f
    /\ scanned' = scanned + 1
    /\ components' = c
    /\ UNCHANGED <<variant, pc, build_file, exception>>
    /\ UNCHANGED <<failVars, analyzeVars, renderVars, diagramVars, runVars, extractVars>>

AnalyzeSpringComponentsComplete ==
    \E f \in JavaFiles : Step("complete", f, ClassifyComplete(components, f, scanned + 1))

AnalyzeSpringComponentsFixedC4 ==
    \E f \in JavaFiles : Step("fixed_c4", f, ClassifyFixedC4(components, f, scanned + 1))

AnalyzeSpringComponentsFour ==
    \E f \in JavaFiles : Step("c4_four", f, ClassifyFour(components, f, scanned + 1))

FixedAnalyzeScan ==
    \E f \in JavaFiles :
        Step("fixed_analyze", f, ClassifyFixedAnalyze(components, f, scanned + 1))

ExtractServiceComponents ==
    \E f \in JavaFiles : Step("springboot", f, ClassifySpringBoot(components, f, scanned + 1))

HybridSpringAnalysis ==
    \E f \in JavaFiles : Step("hybrid", f, ClassifyHybrid(components, f, scanned + 1))

\* scan_project walks the Java files only when it detected a Spring Boot
\* project (here: a build file; no stem of the model ends with Application).
ScanProject ==
    /\ build_file
    /\ \E f \in JavaFiles :
           Step("scan_project", f, ClassifyScanProject(components, f, scanned + 1))

\* The end of the listing: the scan returns its collections.
ScanReturn ==
    /\ pc = "scan"
    /\ pc' = "done"
    /\ UNCHANGED <<variant, scanVars, exception>>
    /\ UNCHANGED <<failVars, analyzeVars, renderVars, diagramVars, runVars, extractVars>>

NextClassify ==
    \/ AnalyzeSpringComponentsComplete
    \/ AnalyzeSpringComponentsFixedC4
    \/ AnalyzeSpringComponentsFour
    \/ FixedAnalyzeScan
    \/ ExtractServiceComponents
    \/ HybridSpringAnalysis
    \/ ScanProject
    \/ ScanReturn

SpecClassify == InitClassify /\ [][NextClassify]_vars

(***************************************************************************)
(* Properties of the classifier scans (specification SpecClassify)         *)
(***************************************************************************)
\* The collections that hold the file at position i of the listing.
CollectionsOf(i) == {k \in DOMAIN components : i \in FilesOf(components[k])}

\* How often the file at position i occurs in a list.
Occurrences(list, i) == Cardinality({j \in DOMAIN list : list[j].file = i})

Scanned == 1 .. scanned

\* Every marker substring some classifier tests for.
RecognizedMarkers ==
    {"@RestController", "@Controller", "@Service", "@Repository", "JpaRepository",
     "CrudRepository", "MongoRepository", "@Entity", "@Configuration", "@Component",
     "@Bean", "@Table", "@FeignClient", "RestTemplate", "@Autowired", "@Inject",
     "@Resource"} \cup MappingMarkers

NamingSuffixes ==
    {"Service", "ServiceImpl", "Manager", "Processor", "Controller", "Endpoint",
     "Resource", "Repository", "DAO", "Application", "Config", "Entity", "Model"}

NoMarker(f) == f.content \cap RecognizedMarkers = {}

NoNamingConvention(f) ==
    \A s \in NamingSuffixes : ~EndsWith(f.stem, s) /\ ~NameContains(f.stem, s)

\* C1 as stated: in each of the three classifier variants, no scanned file
\* is held by two category collections.
C1_NoFileInTwoKinds ==
    variant \in {"complete", "fixed_analyze", "springboot"}
        => \A i \in Scanned : Cardinality(CollectionsOf(i)) <= 1

\* C1 amended: analyze_spring_components (complete-c4-analyzer.py) puts every
\* scanned file in at most one collection, once. fixed-analyze.py puts a
\* controller file in its own list and in the aggregate list 'controllers'
\* (which holds exactly the REST and MVC controllers) and every other file in
\* at most one list. extract_service_components tests its three kinds
\* independently: a file is held at most once by each of services, daos and
\* entities, and may be held by several of them.
C1_ExclusiveWhereElifChain ==
    /\ variant = "complete"
           => \A i \in Scanned :
                  /\ Cardinality(CollectionsOf(i)) <= 1
                  /\ \A k \in DOMAIN components : Occurrences(components[k], i) <= 1
    /\ variant = "fixed_analyze"
           => /\ \A i \in Scanned :
                     /\ Cardinality(CollectionsOf(i) \ {"controllers"}) <= 1
                     /\ \A k \in DOMAIN components : Occurrences(components[k], i) <= 1
              /\ FilesOf(components["controllers"]) =
                     FilesOf(components["rest_controllers"])
                         \cup FilesOf(components["mvc_controllers"])
    /\ variant = "springboot"
           => \A i \in Scanned :
                  \A k \in DOMAIN components : Occurrences(components[k], i) <= 1

\* C1 witness: analyze_spring_components classified a file whose text holds
\* two annotation markers.
C1_TwoMarkerFileClassified ==
    /\ variant = "complete"
    /\ scanned = 2
    /\ Cardinality(java_file.content \cap RecognizedMarkers) = 2
    /\ CollectionsOf(2) # {}

SixMarkers ==
    {"@RestController", "@Service", "@Repository", "@Entity", "@Configuration",
     "@Component"}

KindOfMarker(m) ==
    CASE m = "@RestController" -> "rest_controllers"
      [] m = "@Service" -> "services"
      [] m = "@Repository" -> "repositories"
      [] m = "@Entity" -> "entities"
      [] m = "@Configuration" -> "configs"
      [] m = "@Component" -> "components"

\* C2 as stated: a file whose text holds exactly one of the six markers and
\* whose name follows no naming convention is put by analyze_spring_components
\* in the collection of that marker's kind and in no other.
C2_SingleMarkerGivesItsKind ==
    /\ variant \in {"complete", "fixed_c4", "c4_four"}
    /\ scanned >= 1
    /\ NoNamingConvention(java_file)
    => \A m \in SixMarkers :
           java_file.content = {m} => CollectionsOf(scanned) = {KindOfMarker(m)}

\* C3 as stated: a file without marker substring and without naming
\* convention is held by no collection, in hybrid_spring_analysis, scan_project
\* and analyze_spring_components.
C3_UnmarkedFileUnclassified ==
    /\ variant \in {"hybrid", "scan_project", "complete"}
    /\ scanned >= 1
    /\ NoMarker(java_file)
    /\ NoNamingConvention(java_file)
    => CollectionsOf(scanned) = {}

\* C3 amended: hybrid_spring_analysis and analyze_spring_components leave such
\* a file out of every collection. scan_project has no unclassified outcome:
\* it appends every Java file of a detected Spring Boot project to the
\* container's components, such a file with the type "Java Component".
C3_UnclassifiedExceptScanProject ==
    /\ /\ variant \in {"hybrid", "complete"}
       /\ scanned >= 1
       /\ NoMarker(java_file)
       /\ NoNamingConvention(java_file)
       => CollectionsOf(scanned) = {}
    /\ variant = "scan_project" /\ scanned >= 1
       => /\ Len(components["components"]) = scanned
          /\ components["components"][scanned].file = scanned
          /\ components["components"][scanned].name = java_file.stem
          /\ NoNamingConvention(java_file)
                 => components["components"][scanned].desc = "Java Component"

\* C3 witness: hybrid_spring_analysis scanned a file without marker and naming
\* convention after it had classified another file.
C3_UnmarkedFileScanned ==
    /\ variant = "hybrid"
    /\ scanned = 2
    /\ NoMarker(java_file)
    /\ NoNamingConvention(java_file)
    /\ CollectionsOf(1) # {}
    /\ CollectionsOf(2) = {}

(***************************************************************************)
(* SpringBootAnalyzer.analyze (c4-generator/analyze_springboot.py)         *)
(***************************************************************************)
\* Most directories of a source tree.
MaxDirs == 2

DirNames == {"payment-service", "gateway"}

\* A directory of the tree: the build files it holds, the first
\* <artifactId> of its pom.xml ("" when there is none) and the server.port
\* of its application.properties ("" when the key is not set).
Directories ==
    [name : DirNames, pom : BOOLEAN, gradle : BOOLEAN,
     artifactId : {"", "payments"}, port : {"", "8080"}]

Trees == UNION {[1 .. n -> Directories] : n \in 0 .. MaxDirs}

IsProjectRoot(d) == d.pom \/ d.gradle

\* The methods the class SpringBootAnalyzer defines. The statements at
\* lines 136-181 follow the return of extract_service_components and are
\* part of its body; no def statement introduces extract_rest_endpoints.
AnalyzerMethods ==
    {"__init__", "find_microservices", "extract_service_name",
     "find_application_properties", "_flatten_dict", "extract_service_components",
     "extract_feign_clients", "extract_rest_template_calls", "extract_database_info",
     "analyze", "generate_structurizr_dsl", "sanitize_id", "generate_report"}

ServiceNameOf(d) == IF d.pom /\ d.artifactId # "" THEN d.artifactId ELSE d.name

PropsOf(d) == IF d.port # "" THEN [k \in {"server.port"} |-> d.port] ELSE <<>>

InitAnalyze ==
    /\ variant = "analyze_springboot"
    /\ pc = "find_microservices"
    /\ exception = ""
    /\ tree \in Trees
    /\ outputs = <<>>
    /\ AnalyzeIdle
    /\ ScanIdle /\ FailIdle /\ RenderIdle /\ DiagramIdle /\ ExtractIdle

AnalyzeFrame ==
    /\ UNCHANGED <<variant, tree, outputs>>
    /\ UNCHANGED <<scanVars, failVars, renderVars, diagramVars, extractVars>>

\* service_paths = self.find_microservices()
FindMicroservices ==
    /\ pc = "find_microservices"
    /\ service_paths' = SelectSeq(tree, IsProjectRoot)
    /\ pc' = "for"
    /\ UNCHANGED <<root_idx, service_name, props, services, exception>>
    /\ AnalyzeFrame

\* for service_path in service_paths: the next root, or the end of analyze.
ForServicePath ==
    /\ pc = "for"
    /\ IF root_idx < Len(service_paths)
       THEN root_idx' = root_idx + 1 /\ pc' = "extract_service_name"
       ELSE root_idx' = root_idx /\ pc' = "done"
    /\ UNCHANGED <<service_paths, service_name, props, services, exception>>
    /\ AnalyzeFrame

\* service_name = self.extract_service_name(service_path)
ExtractServiceName ==
    /\ pc = "extract_service_name"
    /\ service_name' = ServiceNameOf(service_paths[root_idx])
    /\ pc' = "find_application_properties"
    /\ UNCHANGED <<service_paths, root_idx, props, services, exception>>
    /\ AnalyzeFrame

\* props = self.find_application_properties(service_path)
FindApplicationProperties ==
    /\ pc = "find_application_properties"
    /\ props' = PropsOf(service_paths[root_idx])
    /\ pc' = "extract_rest_endpoints"
    /\ UNCHANGED <<service_paths, root_idx, service_name, services, exception>>
    /\ AnalyzeFrame

\* endpoints, controllers = self.extract_rest_endpoints(service_path): the
\* attribute lookup on self raises AttributeError, which nothing in analyze
\* or in its caller catches. The statements after this one are never reached.
ExtractRestEndpoints ==
    /\ pc = "extract_rest_endpoints"
    /\ "extract_rest_endpoints" \notin AnalyzerMethods
    /\ exception' = "AttributeError"
    /\ pc' = "raised"
    /\ UNCHANGED <<service_paths, root_idx, service_name, props, services>>
    /\ AnalyzeFrame

NextAnalyze ==
    \/ FindMicroservices
    \/ ForServicePath
    \/ ExtractServiceName
    \/ FindApplicationProperties
    \/ ExtractRestEndpoints

SpecAnalyze == InitAnalyze /\ [][NextAnalyze]_vars

(***************************************************************************)
(* Properties of SpringBootAnalyzer.analyze (specification SpecAnalyze)    *)
(***************************************************************************)
DescriptorKeys ==
    {"endpoints", "controllers", "services", "daos", "entities", "database", "port"}

\* C4: analyze() ends normally for any project tree and stores a complete
\* descriptor for every discovered project root: once analyze is over, no
\* exception has left it and self.services holds, under the name of each
\* root, a descriptor with all of its keys.
C4_AnalyzeStoresEveryRoot ==
    pc \in {"done", "raised"} =>
        /\ exception = ""
        /\ \A i \in DOMAIN service_paths :
               /\ ServiceNameOf(service_paths[i]) \in DOMAIN services
               /\ DescriptorKeys \subseteq DOMAIN services[ServiceNameOf(service_paths[i])]

(***************************************************************************)
(* The scans that guard each file with try/except:                         *)
(* analyze_spring_components (c4-workspace/validated-c4-diagrams.py) and   *)
(* deep_spring_analysis (c4-workspace/deep-analyze.py)                     *)
(***************************************************************************)
FailMarkers == {"@RestController", "@Service", "@Repository", "@Entity", "@Component"}

\* A file of the listing together with what can go wrong while it is
\* processed: read_text raises (readable = FALSE), a pattern-matching helper
\* called on its content raises (match_raises), printing its name raises
\* (printable = FALSE: the name holds bytes that are not valid UTF-8).
\* autowired: the content declares an @Autowired field.
GuardedFiles ==
    [stem : {"Foo"}, content : {{}} \cup {{m} : m \in FailMarkers},
     autowired : BOOLEAN, readable : BOOLEAN, match_raises : BOOLEAN,
     printable : BOOLEAN]

KeysValidated ==
    {"rest_controllers", "services", "repositories", "jpa_repositories", "entities",
     "configs", "components"}

KeysDeep ==
    {"controllers", "rest_controllers", "services", "repositories", "jpa_repositories",
     "entities", "configs", "components", "rest_clients", "scheduled_tasks",
     "listeners", "aspects", "mvc_controllers", "feign_clients", "kafka_listeners",
     "rabbit_listeners", "web_services", "jms_listeners"}

\* component_info as it is built at the head of the loop body.
ComponentInfo(f, idx) == [name |-> f.stem, file |-> idx, dependencies |-> <<>>]

find_autowired_dependencies(f) ==
    IF f.autowired
    THEN <<[from |-> f.stem, to |-> "paymentService", type |-> "autowired"]>>
    ELSE <<>>

\* component_info['dependencies'] = deps: the entry appended last to the
\* list is the same object, so the list sees the assignment.
SetDependencies(c, key, deps) ==
    [c EXCEPT ![key] = [@ EXCEPT ![Len(@)] = [@ EXCEPT !.dependencies = deps]]]

Outcome(c, d, r, e) == [components |-> c, dependencies |-> d, raised |-> r, escaped |-> e]

\* A branch of validated-c4-diagrams that appends, prints the class name and
\* then looks for the injected fields.
AppendPrintFind(c, d, key, f, idx) ==
    LET c1 == Add(c, key, ComponentInfo(f, idx))
        deps == find_autowired_dependencies(f)
    IN  IF ~f.printable \/ f.match_raises
        THEN Outcome(c1, d, TRUE, FALSE)
        ELSE Outcome(SetDependencies(c1, key, deps), d \o deps, FALSE, FALSE)

\* A branch that appends and then prints the class name.
AppendPrint(c, d, key, f, idx) ==
    Outcome(Add(c, key, ComponentInfo(f, idx)), d, ~f.printable, FALSE)

\* One iteration of the loop of analyze_spring_components: whatever is
\* raised inside the try block is caught and the loop continues.
ProcessValidated(c, d, f, idx) ==
    IF ~f.readable THEN Outcome(c, d, TRUE, FALSE)
    ELSE IF "@RestController" \in f.content
    THEN AppendPrintFind(c, d, "rest_controllers", f, idx)
    ELSE IF "@Service" \in f.content
    THEN AppendPrintFind(c, d, "services", f, idx)
    ELSE IF "@Repository" \in f.content
    THEN AppendPrint(c, d, "repositories", f, idx)
    ELSE IF "@Entity" \in f.content
    THEN IF f.match_raises
         THEN Outcome(c, d, TRUE, FALSE)
         ELSE AppendPrint(c, d, "entities", f, idx)
    ELSE Outcome(c, d, FALSE, FALSE)

DeepKey(f) ==
    IF "@RestController" \in f.content THEN "rest_controllers"
    ELSE IF "@Service" \in f.content THEN "services"
    ELSE IF "@Repository" \in f.content THEN "repositories"
    ELSE IF "@Entity" \in f.content THEN "entities"
    ELSE IF "@Component" \in f.content THEN "components"
    ELSE ""

\* One iteration of the loop of deep_spring_analysis. The helpers are called
\* while the entry is built, before the append; the class name is printed
\* after it. The handler prints the path of the file, which raises again
\* when the name cannot be printed, and then the exception leaves the scan.
ProcessDeep(c, d, f, idx) ==
    IF ~f.readable \/ f.match_raises THEN Outcome(c, d, TRUE, ~f.printable)
    ELSE IF DeepKey(f) = "" THEN Outcome(c, d, FALSE, FALSE)
    ELSE Outcome(Add(c, DeepKey(f), ComponentInfo(f, idx)), d, ~f.printable, ~f.printable)

ProcessGuarded(v, c, d, f, idx) ==
    IF v = "validated" THEN ProcessValidated(c, d, f, idx) ELSE ProcessDeep(c, d, f, idx)

InitGuarded ==
    /\ variant \in {"validated", "deep"}
    /\ pc = "scan"
    /\ exception = ""
    /\ scanned = 0
    /\ java_file = ""
    /\ build_file = FALSE
    /\ components = EmptyComponents(IF variant = "validated" THEN KeysValidated ELSE KeysDeep)
    /\ dependencies = <<>>
    /\ ref_components = components
    /\ ref_dependencies = <<>>
    /\ AnalyzeIdle /\ RenderIdle /\ DiagramIdle /\ RunIdle /\ ExtractIdle

\* One iteration of the for loop over java_files. ref_components and
\* ref_dependencies follow the same scan over the listing without the files
\* whose processing raised.
GuardedStep(v, f) ==
    LET r == ProcessGuarded(v, components, dependencies, f, scanned + 1)
        ref == ProcessGuarded(v, ref_components, ref_dependencies, f, scanned + 1)
    IN  /\ variant = v
        /\ pc = "scan"
        /\ scanned < MaxFiles
        /\ java_file' = f
        /\ scanned' = scanned + 1
        /\ components' = r.components
        /\ dependencies' = r.dependencies
        /\ ref_components' = IF r.raised THEN ref_components ELSE ref.components
        /\ ref_dependencies' = IF r.raised THEN ref_dependencies ELSE ref.dependencies
        /\ exception' = IF r.escaped THEN "UnicodeEncodeError" ELSE ""
        /\ pc' = IF r.escaped THEN "raised" ELSE "scan"
        /\ UNCHANGED <<variant, build_file>>
        /\ UNCHANGED <<analyzeVars, renderVars, diagramVars, runVars, extractVars>>

AnalyzeSpringComponentsValidated == \E f \in GuardedFiles : GuardedStep("validated", f)

DeepSpringAnalysis == \E f \in GuardedFiles : GuardedStep("deep", f)

NextGuarded ==
    \/ AnalyzeSpringComponentsValidated
    \/ DeepSpringAnalysis
    \/ ScanReturn

SpecGuarded == InitGuarded /\ [][NextGuarded]_vars

(***************************************************************************)
(* Properties of the guarded scans (specification SpecGuarded)             *)
(***************************************************************************)
\* C5: a failure while one file is processed is caught, the file appears in
\* no collection and contributes no dependency edge, and every other file is
\* classified as if the failing file were absent: no exception leaves the
\* scan, and the collections and the edges are those of the scan of the
\* listing without the failing files.
C5_FailingFileLeavesNothing ==
    /\ exception = ""
    /\ components = ref_components
    /\ dependencies = ref_dependencies

(***************************************************************************)
(* The main loops that call the external renderer:                         *)
(* main of c4-workspace/complete-c4-analyzer.py and of                     *)
(* c4-workspace/fixed-c4-diagrams.py                                       *)
(***************************************************************************)
\* Most project directories under input_dir.
MaxProjects == 2

ProjectNames == {"shop", "bank"}

\* The listings os.listdir can return: distinct directory names.
ProjectListings ==
    {l \in UNION {[1 .. n -> ProjectNames] : n \in 0 .. MaxProjects} :
        \A i, j \in DOMAIN l : i # j => l[i] # l[j]}

\* What a run of the renderer can end in: its exit status and, when it
\* failed, whether the bytes it wrote to stderr are valid UTF-8.
RendererOutcomes ==
    {[status |-> 0, stderr_utf8 |-> TRUE], [status |-> 1, stderr_utf8 |-> TRUE],
     [status |-> 1, stderr_utf8 |-> FALSE]}

\* The diagram text files each script writes for a project.
DiagramsOf(v) ==
    IF v = "complete" THEN {"complete_architecture"}
    ELSE {"c1_context", "c2_container", "c3_component", "uml_class"}

InitRender ==
    /\ variant \in {"complete", "fixed_c4"}
    /\ pc = "main"
    /\ exception = ""
    /\ projects \in ProjectListings
    /\ proj_idx = 0
    /\ analysed = {}
    /\ written = {}
    /\ renderer_exit = <<>>
    /\ console = <<>>
    /\ ScanIdle /\ FailIdle /\ AnalyzeIdle /\ DiagramIdle /\ RunIdle /\ ExtractIdle

RenderFrame ==
    /\ UNCHANGED <<variant, projects>>
    /\ UNCHANGED <<scanVars, failVars, analyzeVars, diagramVars, runVars, extractVars>>

\* The position after the last diagram of a project: the next project of
\* the loop, or the end of main.
AfterProject == IF proj_idx < Len(projects) THEN "analyze" ELSE "done"

\* projects = [...]; if not projects: return; for project in projects
ListProjects ==
    /\ pc = "main"
    /\ pc' = IF projects = <<>> THEN "done" ELSE "analyze"
    /\ UNCHANGED <<proj_idx, analysed, written, renderer_exit, console, exception>>
    /\ RenderFrame

\* components = analyze_spring_components(project_path), for the next project
AnalyzeProject ==
    /\ pc = "analyze"
    /\ proj_idx' = proj_idx + 1
    /\ analysed' = analysed \cup {proj_idx + 1}
    /\ pc' = IF variant = "complete" THEN "complete_architecture" ELSE "c1_context"
    /\ UNCHANGED <<written, renderer_exit, console, exception>>
    /\ RenderFrame

WithExit(d, o) == [k \in DOMAIN renderer_exit \cup {<<proj_idx, d>>} |->
                      IF k = <<proj_idx, d>> THEN o.status ELSE renderer_exit[k]]

\* create_comprehensive_diagram of complete-c4-analyzer and the branch of
\* main on its result: the text file is written, the renderer runs with its
\* stderr on the console, a CalledProcessError is caught and reported.
CreateComprehensiveDiagram ==
    /\ variant = "complete"
    /\ pc = "complete_architecture"
    /\ \E o \in RendererOutcomes :
           /\ written' = written \cup {<<proj_idx, "complete_architecture">>}
           /\ renderer_exit' = WithExit("complete_architecture", o)
           /\ console' = IF o.status # 0
                         THEN console \o <<[project |-> proj_idx,
                                            diagram |-> "complete_architecture"]>>
                         ELSE console
    /\ pc' = AfterProject
    /\ UNCHANGED <<proj_idx, analysed, exception>>
    /\ RenderFrame

\* A create_..._diagram function of fixed-c4-diagrams: it writes the text
\* file and calls generate_image, which captures the renderer's stderr and,
\* in its handler of CalledProcessError, prints the name of the file and then
\* e.stderr.decode(); decode raises UnicodeDecodeError on invalid UTF-8.
CreateDiagram(d, next) ==
    /\ variant = "fixed_c4"
    /\ pc = d
    /\ \E o \in RendererOutcomes :
           /\ written' = written \cup {<<proj_idx, d>>}
           /\ renderer_exit' = WithExit(d, o)
           /\ console' = IF o.status # 0
                         THEN console \o <<[project |-> proj_idx, diagram |-> d]>>
                         ELSE console
           /\ IF o.status # 0 /\ ~o.stderr_utf8
              THEN exception' = "UnicodeDecodeError" /\ pc' = "raised"
              ELSE exception' = exception /\ pc' = next
    /\ UNCHANGED <<proj_idx, analysed>>
    /\ RenderFrame

CreateC1ContextDiagram == CreateDiagram("c1_context", "c2_container")

CreateC2ContainerDiagram == CreateDiagram("c2_container", "c3_component")

CreateC3ComponentDiagram == CreateDiagram("c3_component", "uml_class")

CreateUmlClassDiagram == CreateDiagram("uml_class", AfterProject)

NextRender ==
    \/ ListProjects
    \/ AnalyzeProject
    \/ CreateComprehensiveDiagram
    \/ CreateC1ContextDiagram
    \/ CreateC2ContainerDiagram
    \/ CreateC3ComponentDiagram
    \/ CreateUmlClassDiagram

SpecRender == InitRender /\ [][NextRender]_vars

(***************************************************************************)
(* Properties of the main loops (specification SpecRender)                 *)
(***************************************************************************)
\* C6: when the renderer fails for a diagram of a project (non-zero exit),
\* the failure is reported on the console and the run continues: no
\* exception leaves main, every failed rendering has its console report, and
\* at the end of main every project of the listing has been analysed and has
\* its diagram text files written.
C6_RunContinuesAfterRendererFailure ==
    /\ exception = ""
    /\ \A k \in DOMAIN renderer_exit :
           renderer_exit[k] # 0 =>
               \E i \in DOMAIN console :
                   console[i] = [project |-> k[1], diagram |-> k[2]]
    /\ pc = "done" =>
           \A p \in DOMAIN projects :
               /\ p \in analysed
               /\ \A d \in DiagramsOf(variant) : <<p, d>> \in written

(***************************************************************************)
(* The layered component diagrams: create_rich_architecture_diagram        *)
(* (c4-workspace/hybrid-analyze.py) and create_comprehensive_diagram       *)
(* (c4-workspace/comprehensive-analyze.py), each followed by its summary   *)
(***************************************************************************)
\* Longest collection handed to a diagram function.
MaxListed == 1

\* The collections the three layer boundaries are drawn from ("controllers"
\* is the web_controllers collection of comprehensive-analyze).
LayerKeys ==
    {"rest_controllers", "controllers", "services", "components", "repositories",
     "jpa_repositories"}

ListedNames == {"Foo"}

Lower(name) == IF name = "Foo" THEN "foo" ELSE name

ClassifiedInputs ==
    [LayerKeys -> UNION {[1 .. n -> [name : ListedNames]] : n \in 0 .. MaxListed}]

\* list[:n]
Take(list, n) == SubSeq(list, 1, IF Len(list) < n THEN Len(list) ELSE n)

\* Component(<lower-cased name><suffix>, "<name>", "<kind>") for each entry.
ComponentLines(list, suffix, kind) ==
    [i \in DOMAIN list |->
        [id |-> <<Lower(list[i].name), suffix>>, label |-> list[i].name, kind |-> kind]]

Placeholder(id, label) == <<[id |-> <<id, "">>, label |-> label, kind |-> "Not detected"]>>

ApiLayer(v, c) ==
    IF v = "hybrid"
    THEN (IF c["rest_controllers"] # <<>>
          THEN ComponentLines(Take(c["rest_controllers"], 6), "", "REST Controller")
          ELSE Placeholder("api_placeholder", "REST Controllers"))
         \o ComponentLines(Take(c["controllers"], 3), "_web", "Web Controller")
    ELSE ComponentLines(Take(c["rest_controllers"], 8), "", "REST Controller")

BusinessLayer(v, c) ==
    IF v = "hybrid"
    THEN (IF c["services"] # <<>>
          THEN ComponentLines(Take(c["services"], 8), "", "Business Service")
          ELSE Placeholder("biz_placeholder", "Business Services"))
         \o ComponentLines(Take(c["components"], 5), "_comp", "Component")
    ELSE ComponentLines(Take(c["services"], 8), "", "Service")
         \o ComponentLines(Take(c["components"], 5), "_comp", "Component")

DataLayer(v, c) ==
    IF v = "hybrid"
    THEN IF c["repositories"] # <<>> \/ c["jpa_repositories"] # <<>>
         THEN ComponentLines(Take(c["repositories"], 4), "", "Repository")
              \o ComponentLines(Take(c["jpa_repositories"], 4), "_jpa", "JPA Repository")
         ELSE Placeholder("data_placeholder", "Data Repositories")
    ELSE ComponentLines(Take(c["repositories"], 6), "", "Repository")
         \o ComponentLines(Take(c["jpa_repositories"], 6), "_jpa", "JPA Repository")

RECURSIVE SumOfLengths(_, _)
SumOfLengths(c, keys) ==
    IF keys = {} THEN 0
    ELSE LET k == CHOOSE x \in keys : TRUE
         IN  Len(c[k]) + SumOfLengths(c, keys \ {k})

InitDiagram ==
    /\ variant \in {"hybrid", "comprehensive"}
    /\ pc = "api_layer"
    /\ exception = ""
    /\ components \in ClassifiedInputs
    /\ scanned = 0 /\ java_file = "" /\ build_file = FALSE
    /\ puml = <<>>
    /\ total_components = -1
    /\ valid_relationships = 0
    /\ FailIdle /\ AnalyzeIdle /\ RenderIdle /\ RunIdle /\ ExtractIdle

DiagramFrame ==
    /\ UNCHANGED <<variant, exception, scanVars>>
    /\ UNCHANGED <<failVars, analyzeVars, renderVars, runVars, extractVars>>

\* Container_Boundary(api_layer, "API Layer") { ... }
EmitApiLayer ==
    /\ pc = "api_layer"
    /\ puml' = [api_layer |-> ApiLayer(variant, components)]
    /\ pc' = "business_layer"
    /\ UNCHANGED <<total_components, valid_relationships>>
    /\ DiagramFrame

\* Container_Boundary(business_layer, "Business Layer") { ... }
EmitBusinessLayer ==
    /\ pc = "business_layer"
    /\ puml' = [api_layer |-> puml.api_layer,
                business_layer |-> BusinessLayer(variant, components)]
    /\ pc' = "data_layer"
    /\ UNCHANGED <<total_components, valid_relationships>>
    /\ DiagramFrame

\* Container_Boundary(data_layer, "Data Layer") { ... }, the rest of the
\* text, and the write of the file.
EmitDataLayer ==
    /\ pc = "data_layer"
    /\ puml' = [api_layer |-> puml.api_layer, business_layer |-> puml.business_layer,
                data_layer |-> DataLayer(variant, components)]
    /\ pc' = "summary"
    /\ UNCHANGED <<total_components, valid_relationships>>
    /\ DiagramFrame

\* print_hybrid_summary / print_summary
PrintSummary ==
    /\ pc = "summary"
    /\ total_components' = SumOfLengths(components, DOMAIN components)
    /\ pc' = "done"
    /\ UNCHANGED <<puml, valid_relationships>>
    /\ DiagramFrame

NextDiagram ==
    \/ EmitApiLayer
    \/ EmitBusinessLayer
    \/ EmitDataLayer
    \/ PrintSummary

SpecDiagram == InitDiagram /\ [][NextDiagram]_vars

(***************************************************************************)
(* Properties of the layered diagrams (specification SpecDiagram)          *)
(***************************************************************************)
NothingClassified == \A k \in DOMAIN components : components[k] = <<>>

IsPlaceholder(line) == line.kind = "Not detected"

\* C7: for a project in which no file is classified, diagram generation
\* raises no exception, each of the three layer boundaries of the emitted
\* diagram holds a placeholder component, and the summary reports zero
\* components.
C7_EmptyProjectGetsPlaceholders ==
    (NothingClassified /\ pc = "done") =>
        /\ exception = ""
        /\ \A b \in {"api_layer", "business_layer", "data_layer"} :
               \E i \in DOMAIN puml[b] : IsPlaceholder(puml[b][i])
        /\ total_components = 0

(***************************************************************************)
(* Repeated runs of the functions that return list(<set>):                 *)
(* extract_feign_clients (c4-generator/analyze_springboot.py),             *)
(* detect_external_dependencies (c4-workspace/complete-c4-analyzer.py) and *)
(* detect_security_config (c4-workspace/enhanced-c4-analyzer.py)           *)
(***************************************************************************)
\* Runs of the pipeline on the same tree.
Runs == 2

\* Most files of the tree the listing functions read.
MaxTreeFiles == 2

\* The matches of the two @FeignClient patterns in one file, in text order.
FeignMatches ==
    {<<>>, <<"billing-service">>, <<"order-service">>,
     <<"billing-service", "order-service">>}

ExternalTerms == {"KafkaTemplate", "RabbitTemplate", "RestTemplate", "SOAP"}

SecurityTerms == {"@EnableWebSecurity", "JWT", "OAuth2"}

\* A file as each function sees it.
TreeFiles(v) ==
    CASE v = "extract_feign_clients" -> [clients : FeignMatches]
      [] v = "detect_external_dependencies" ->
             [content : {t \in SUBSET ExternalTerms : Cardinality(t) <= 2}]
      [] v = "detect_security_config" ->
             [kind : {"java"}, content : {t \in SUBSET SecurityTerms : Cardinality(t) <= 2}]
             \cup [kind : {"config"}, content : {{}, {"security"}}]

Range(seq) == {seq[i] : i \in DOMAIN seq}

\* The names extract_feign_clients collects over the whole tree.
FeignClientSet(t) == UNION {Range(t[i].clients) : i \in DOMAIN t}

\* The set detect_external_dependencies fills over the whole tree.
ExternalDependencySet(t) ==
    LET found == UNION {t[i].content : i \in DOMAIN t}
    IN  (IF "KafkaTemplate" \in found THEN {"Apache Kafka"} ELSE {})
        \cup (IF "RabbitTemplate" \in found THEN {"RabbitMQ"} ELSE {})
        \cup (IF "RestTemplate" \in found THEN {"REST Clients"} ELSE {})
        \cup (IF "SOAP" \in found THEN {"SOAP Web Services"} ELSE {})

\* The set detect_security_config fills over the whole tree.
SecurityFeatureSet(t) ==
    LET java == UNION {t[i].content : i \in {j \in DOMAIN t : t[j].kind = "java"}}
        config == UNION {t[i].content : i \in {j \in DOMAIN t : t[j].kind = "config"}}
    IN  (IF "@EnableWebSecurity" \in java THEN {"Spring Security"} ELSE {})
        \cup (IF "JWT" \in java THEN {"JWT"} ELSE {})
        \cup (IF "OAuth2" \in java THEN {"OAuth2"} ELSE {})
        \cup (IF "security" \in config THEN {"Security Configured"} ELSE {})

\* list(s): the elements of s in the iteration order of the set, which for
\* strings follows their hashes; the hash seed is drawn anew by every
\* interpreter process, so each run may see any order.
ListsOfSet(s) ==
    {l \in [1 .. Cardinality(s) -> s] : \A i, j \in DOMAIN l : i # j => l[i] # l[j]}

InitRuns ==
    /\ variant \in
           {"extract_feign_clients", "detect_external_dependencies",
            "detect_security_config"}
    /\ pc = "run"
    /\ exception = ""
    /\ tree \in UNION {[1 .. n -> TreeFiles(variant)] : n \in 0 .. MaxTreeFiles}
    /\ outputs = <<>>
    /\ ScanIdle /\ FailIdle /\ AnalyzeIdle /\ RenderIdle /\ DiagramIdle /\ ExtractIdle

\* One run of the function named v, returning one of the lists in results.
Run(v, results) ==
    /\ variant = v
    /\ pc = "run"
    /\ Len(outputs) < Runs
    /\ \E l \in results : outputs' = Append(outputs, l)
    /\ pc' = IF Len(outputs) + 1 = Runs THEN "done" ELSE "run"
    /\ UNCHANGED <<variant, exception, tree>>
    /\ UNCHANGED <<scanVars, failVars, analyzeVars, renderVars, diagramVars, extractVars>>

\* return list(set(feign_clients)), http_clients
ExtractFeignClients == Run("extract_feign_clients", ListsOfSet(FeignClientSet(tree)))

\* return list(dependencies)
DetectExternalDependencies ==
    Run("detect_external_dependencies", ListsOfSet(ExternalDependencySet(tree)))

\* return list(security_features) if security_features else ['Basic Security']
DetectSecurityConfig ==
    Run("detect_security_config",
        IF SecurityFeatureSet(tree) # {}
        THEN ListsOfSet(SecurityFeatureSet(tree))
        ELSE {<<"Basic Security">>})

NextRuns ==
    \/ ExtractFeignClients
    \/ DetectExternalDependencies
    \/ DetectSecurityConfig

SpecRuns == InitRuns /\ [][NextRuns]_vars

(***************************************************************************)
(* Properties of repeated runs (specification SpecRuns)                    *)
(***************************************************************************)
\* C8: two runs on the same unchanged source tree produce identical
\* results, including the order in which feign clients, external
\* dependencies and security features are listed.
C8_RunsListInTheSameOrder ==
    \A i, j \in DOMAIN outputs : outputs[i] = outputs[j]

(***************************************************************************)
(* extract_api_endpoints (c4-workspace/enhanced-c4-analyzer.py and         *)
(* c4-workspace/complete-c4-analyzer.py) on one controller file            *)
(***************************************************************************)
\* Most mapping annotations in the controller file.
MaxAnnotations == 3

\* Path arguments, as sequences of characters.
Paths == {<<>>, <<"/">>, <<"/", "a">>, <<"a">>}

MappingAnnotations == {"RequestMapping", "GetMapping", "PostMapping"}

\* A mapping annotation of the file: where it stands, and whether its path
\* is written as the first, positional string argument (@PostMapping("/a"))
\* or otherwise (@PostMapping(value = "/a")).
ClassAnnotations ==
    [annotation : {"RequestMapping"}, level : {"class"}, path : Paths, positional : BOOLEAN]

MethodAnnotations ==
    [annotation : MappingAnnotations, level : {"method"}, path : Paths,
     positional : BOOLEAN]

\* The mapping annotations of a controller file in text order: the
\* annotation of the class, if any, stands before those of its methods.
ControllerTexts ==
    {t \in UNION {[1 .. n -> ClassAnnotations \cup MethodAnnotations] :
                     n \in 0 .. MaxAnnotations} :
        \A i \in DOMAIN t : t[i].level = "class" => i = 1}

\* method_annotation.replace('Mapping', '').upper()
HttpMethod(annotation) ==
    CASE annotation = "RequestMapping" -> "REQUEST"
      [] annotation = "GetMapping" -> "GET"
      [] annotation = "PostMapping" -> "POST"

\* s.replace("//", "/")
RECURSIVE ReplaceDoubleSlash(_)
ReplaceDoubleSlash(s) ==
    IF Len(s) < 2 THEN s
    ELSE IF s[1] = "/" /\ s[2] = "/"
         THEN <<"/">> \o ReplaceDoubleSlash(SubSeq(s, 3, Len(s)))
         ELSE <<s[1]>> \o ReplaceDoubleSlash(Tail(s))

\* re.findall of the method pattern: every annotation of the six kinds
\* followed by "(" and a quoted string, wherever it stands in the file.
MethodMappings(t) == SelectSeq(t, LAMBDA a : a.positional)

\* re.search of @RequestMapping\s*\(\s*["']([^"']*)["']: the first such
\* annotation of the file, wherever it stands.
BasePath(t) ==
    LET hits == SelectSeq(t, LAMBDA a : a.annotation = "RequestMapping" /\ a.positional)
    IN  IF hits # <<>> THEN hits[1].path ELSE <<>>

EndpointsEnhanced(t) ==
    LET all == [i \in DOMAIN MethodMappings(t) |->
                   [method |-> HttpMethod(MethodMappings(t)[i].annotation),
                    path |-> ReplaceDoubleSlash(BasePath(t) \o MethodMappings(t)[i].path)]]
    IN  Take(SelectSeq(all, LAMBDA e : e.path # <<>>), 10)

EndpointsComplete(t) ==
    Take([i \in DOMAIN MethodMappings(t) |->
             [method |-> HttpMethod(MethodMappings(t)[i].annotation),
              path |-> MethodMappings(t)[i].path]], 8)

InitEndpoints ==
    /\ variant \in {"enhanced", "complete"}
    /\ pc = "call"
    /\ exception = ""
    /\ text \in ControllerTexts
    /\ extracted = <<>>
    /\ ScanIdle /\ FailIdle /\ AnalyzeIdle /\ RenderIdle /\ DiagramIdle /\ RunIdle

ExtractFrame ==
    /\ UNCHANGED <<variant, exception, text>>
    /\ UNCHANGED <<scanVars, failVars, analyzeVars, renderVars, diagramVars, runVars>>

ExtractApiEndpointsEnhanced ==
    /\ variant = "enhanced"
    /\ pc = "call"
    /\ extracted' = EndpointsEnhanced(text)
    /\ pc' = "done"
    /\ ExtractFrame

ExtractApiEndpointsComplete ==
    /\ variant = "complete"
    /\ pc = "call"
    /\ extracted' = EndpointsComplete(text)
    /\ pc' = "done"
    /\ ExtractFrame

NextEndpoints ==
    \/ ExtractApiEndpointsEnhanced
    \/ ExtractApiEndpointsComplete

SpecEndpoints == InitEndpoints /\ [][NextEndpoints]_vars

(***************************************************************************)
(* Properties of endpoint extraction (specification SpecEndpoints)         *)
(***************************************************************************)
\* The base B of the class: the path of its @RequestMapping("B"), the empty
\* string when the class has no mapping.
ClassBase(t) ==
    IF t # <<>> /\ t[1].level = "class" /\ t[1].positional THEN t[1].path ELSE <<>>

\* The paths P1..Pk of the method-level mapping annotations, in text order.
MethodPaths(t) ==
    LET ms == SelectSeq(t, LAMBDA a : a.level = "method" /\ a.positional)
    IN  [i \in DOMAIN ms |-> ms[i].path]

\* C9: for a controller with class-level @RequestMapping("B") and
\* method-level mappings with paths P1..Pk, extraction yields exactly the k
\* endpoints with the paths B+P1 .. B+Pk; without a class-level mapping the
\* base is empty, without method-level mappings there are no endpoints.
C9_EndpointsAreBasePlusMethodPaths ==
    pc = "done" =>
        [i \in DOMAIN extracted |-> extracted[i].path]
            = [i \in DOMAIN MethodPaths(text) |-> ClassBase(text) \o MethodPaths(text)[i]]

(***************************************************************************)
(* extract_table_name and the @Entity branch that records its result       *)
(* (c4-workspace/c4-four-diagrams.py, c4-workspace/validated-c4-diagrams.py)*)
(***************************************************************************)
\* Most top-level arguments of an @Table annotation.
MaxArgs == 3

\* An assignment key = "value" in an argument list.
Assignments == [key : {"name", "schema"}, value : {"merchants", "idx_m"}]

\* A top-level argument of @Table(...): an assignment, or an argument whose
\* value is a nested annotation with its own argument list, such as
\* indexes = @Index(name = "idx_m").
TableArgs ==
    [nested : {FALSE}, assign : Assignments]
    \cup [nested : {TRUE}, args : {<<>>} \cup {<<a>> : a \in Assignments}]

IsTableName(arg) == ~arg.nested /\ arg.assign.key = "name"

\* The argument lists Java accepts: no argument name is given twice.
TableArgLists ==
    {l \in UNION {[1 .. n -> TableArgs] : n \in 0 .. MaxArgs} :
        \A i, j \in DOMAIN l : (IsTableName(l[i]) /\ IsTableName(l[j])) => i = j}

\* The text of an entity file: whether it has an @Table annotation, and the
\* arguments of that annotation.
EntityTexts ==
    {[table |-> FALSE, args |-> <<>>]} \cup [table : {TRUE}, args : TableArgLists]

\* The assignments in the text between "@Table(" and the first ")", which
\* is where [^)]* stops: the ")" of the first nested annotation if there is
\* one, else the ")" of @Table itself.
RECURSIVE BeforeFirstParen(_)
BeforeFirstParen(args) ==
    IF args = <<>> THEN <<>>
    ELSE IF Head(args).nested THEN Head(args).args
    ELSE <<Head(args).assign>> \o BeforeFirstParen(Tail(args))

\* re.search(r'@Table\s*\([^)]*name\s*=\s*["\']([^"\']+)["\']', content):
\* [^)]* is greedy, so group(1) is the value of the last name = "..." before
\* the first ")"; None without a match.
extract_table_name(t) ==
    LET span == BeforeFirstParen(t.args)
        names == SelectSeq(span, LAMBDA a : a.key = "name")
    IN  IF t.table /\ names # <<>> THEN names[Len(names)].value ELSE "None"

InitTable ==
    /\ variant \in {"c4_four", "validated"}
    /\ pc = "call"
    /\ exception = ""
    /\ text \in EntityTexts
    /\ extracted = <<>>
    /\ ScanIdle /\ FailIdle /\ AnalyzeIdle /\ RenderIdle /\ DiagramIdle /\ RunIdle

\* elif '@Entity' in content: the entry appended to components['entities'].
EntityBranch(v) ==
    /\ variant = v
    /\ pc = "call"
    /\ extracted' = <<[name |-> "Merchant", table |-> extract_table_name(text)]>>
    /\ pc' = "done"
    /\ ExtractFrame

EntityBranchFour == EntityBranch("c4_four")

EntityBranchValidated == EntityBranch("validated")

NextTable ==
    \/ EntityBranchFour
    \/ EntityBranchValidated

SpecTable == InitTable /\ [][NextTable]_vars

(***************************************************************************)
(* Properties of table-name extraction (specification SpecTable)           *)
(***************************************************************************)
\* The value of the name argument of the @Table annotation itself, "None"
\* when the file has no @Table or @Table has no name argument.
NameArgumentOfTable(t) ==
    IF \E i \in DOMAIN t.args : IsTableName(t.args[i])
    THEN t.args[CHOOSE i \in DOMAIN t.args : IsTableName(t.args[i])].assign.value
    ELSE "None"

\* C10: the table name recorded for an entity is the value of the name
\* argument of its @Table annotation when there is one, and None when the
\* file has no @Table annotation or the annotation has no name argument.
C10_TableIsNameArgumentOfTable ==
    pc = "done" => extracted[1].table = NameArgumentOfTable(text)

(***************************************************************************)
(* SpringBootAnalyzer.sanitize_id (c4-generator/analyze_springboot.py)     *)
(***************************************************************************)
\* Longest name drawn from SampleChars.
MaxNameLen == 3

\* The characters [a-zA-Z] of the names used here.
AsciiLetters ==
    {"a", "b", "c", "d", "e", "f", "g", "h", "i", "j", "k", "l", "m",
     "n", "o", "p", "q", "r", "s", "t", "u", "v", "w", "x", "y", "z", "Z"}

\* The characters [0-9] of the names used here.
AsciiDigits == {"2", "7"}

\* The characters the names are drawn from: some of the class
\* [a-zA-Z0-9_], some ASCII characters outside it, and a letter outside
\* ASCII, which the class does not hold either.
SampleChars == {"a", "Z", "7", "_", "-", "!", " ", "é"}

\* "payment-service!2"
ExampleName ==
    <<"p", "a", "y", "m", "e", "n", "t", "-", "s", "e", "r", "v", "i", "c", "e", "!", "2">>

Names == UNION {[1 .. n -> SampleChars] : n \in 0 .. MaxNameLen} \cup {ExampleName}

\* A mutation of sanitize_id: re.sub(r'[^a-zA-Z0-9_]', '', name).
SanitizeIdDeleting(name) ==
    SelectSeq(name, LAMBDA ch : ch \in AsciiLetters \cup AsciiDigits \cup {"_"})

\* re.sub(r'[^a-zA-Z0-9_]', '_', name)
sanitize_id(name) ==
    [i \in DOMAIN name |->
        IF name[i] \in AsciiLetters \cup AsciiDigits \cup {"_"} THEN name[i] ELSE "_"]

InitSanitize ==
    /\ variant = "sanitize_id"
    /\ pc = "call"
    /\ exception = ""
    /\ text \in Names
    /\ extracted = <<>>
    /\ ScanIdle /\ FailIdle /\ AnalyzeIdle /\ RenderIdle /\ DiagramIdle /\ RunIdle

SanitizeId ==
    /\ variant = "sanitize_id"
    /\ pc = "call"
    /\ extracted' = sanitize_id(text)
    /\ pc' = "done"
    /\ ExtractFrame

NextSanitize == SanitizeId

SpecSanitize == InitSanitize /\ [][NextSanitize]_vars

(***************************************************************************)
(* Properties of sanitize_id (specification SpecSanitize)                  *)
(***************************************************************************)
\* C11: sanitize_id(name) has the length of name; every letter, digit and
\* underscore (the characters a-z, A-Z, 0-9, _) is unchanged at its
\* position and every other character is replaced by '_'.
C11_SanitizeKeepsLengthAndWordChars ==
    pc = "done" =>
        /\ Len(extracted) = Len(text)
        /\ \A i \in DOMAIN text :
               IF text[i] \in AsciiLetters \cup AsciiDigits \cup {"_"}
               THEN extracted[i] = text[i]
               ELSE extracted[i] = "_"

\* "payment-service!2" has been sanitized to "payment_service_2".
C11_ExampleSanitized ==
    /\ pc = "done"
    /\ text = ExampleName
    /\ extracted =
           <<"p", "a", "y", "m", "e", "n", "t", "_", "s", "e", "r", "v", "i", "c", "e",
             "_", "2">>

(***************************************************************************)
(* The element identifiers written into diagram text:                      *)
(* create_c1_context_diagram (c4-workspace/fixed-c4-diagrams.py),          *)
(* create_c1_system_context (c4-workspace/c4-four-diagrams.py) and         *)
(* generate_c4_diagram (c4-workspace/scripts/analyze_spring.py)            *)
(***************************************************************************)
\* Project directory names: any non-empty name, and "payment-service".
ProjectDirNames ==
    (UNION {[1 .. n -> SampleChars] : n \in 1 .. MaxNameLen})
    \cup {SubSeq(ExampleName, 1, 15)}

\* Class names (file stems) of the analysed components.
ClassNameSamples == {<<ch>> : ch \in SampleChars}

ClassLists == {<<>>} \cup {<<n>> : n \in ClassNameSamples}

\* s.lower()
LowerChars(s) == [i \in DOMAIN s |-> IF s[i] = "Z" THEN "z" ELSE s[i]]

\* The identifiers the templates spell out themselves.
C1Actors == <<<<"c", "u", "s", "t", "o", "m", "e", "r">>, <<"m", "e", "r", "c", "h", "a", "n", "t">>, <<"a", "d", "m", "i", "n">>>>

C1ExternalFixed == <<<<"r", "a", "a", "s", "t">>, <<"b", "a", "n", "k", "i", "n", "g">>, <<"n", "o", "t", "i", "f", "i", "c", "a", "t", "i", "o", "n">>>>

C1ExternalFour == <<<<"r", "a", "a", "s", "t">>, <<"b", "a", "n", "k">>, <<"s", "m", "s", "_", "g", "a", "t", "e", "w", "a", "y">>>>

Webapp == <<"w", "e", "b", "a", "p", "p">>

Database == <<"d", "a", "t", "a", "b", "a", "s", "e">>

\* The identifier arguments of the Person, System, System_Ext and Rel
\* statements of a C1 diagram whose system has the identifier id.
C1Identifiers(id, actors, externals) ==
    actors \o <<id>> \o externals
    \o [i \in 1 .. 2 * Len(actors) |-> IF i % 2 = 1 THEN actors[(i + 1) \div 2] ELSE id]
    \o [i \in 1 .. 2 * Len(externals) |-> IF i % 2 = 1 THEN id ELSE externals[i \div 2]]

\* The identifiers of the Component statements of one category.
ComponentIds(list) == [i \in DOMAIN list |-> LowerChars(list[i])]

\* Rel(a, b, ...) for every a of froms and every b of tos: the two
\* identifiers of each statement.
RECURSIVE RelIds(_, _)
RelIds(froms, tos) ==
    IF froms = <<>> THEN <<>>
    ELSE [i \in 1 .. 2 * Len(tos) |->
             IF i % 2 = 1 THEN Head(froms) ELSE tos[i \div 2]]
         \o RelIds(Tail(froms), tos)

\* The identifier arguments generate_c4_diagram writes.
AnalyzeSpringIdentifiers(r) ==
    <<Webapp, Database>>
    \o ComponentIds(r.controllers) \o ComponentIds(r.services)
    \o ComponentIds(r.repositories)
    \o <<Webapp, Database>>
    \o RelIds(ComponentIds(r.controllers), ComponentIds(r.services))
    \o RelIds(ComponentIds(r.services), ComponentIds(r.repositories))
    \o RelIds(ComponentIds(r.repositories), <<Database>>)

InitIdentifiers ==
    /\ variant \in {"fixed_c4", "c4_four", "analyze_spring"}
    /\ pc = "call"
    /\ exception = ""
    /\ text \in IF variant = "analyze_spring"
                THEN [controllers : ClassLists, services : ClassLists,
                      repositories : ClassLists]
                ELSE [project : ProjectDirNames]
    /\ extracted = <<>>
    /\ ScanIdle /\ FailIdle /\ AnalyzeIdle /\ RenderIdle /\ DiagramIdle /\ RunIdle

\* create_c1_context_diagram: System({project}, ...), Rel(customer, {project}, ...)
CreateC1ContextIdentifiers ==
    /\ variant = "fixed_c4"
    /\ pc = "call"
    /\ extracted' = C1Identifiers(text.project, C1Actors, C1ExternalFixed)
    /\ pc' = "done"
    /\ ExtractFrame

\* create_c1_system_context: System({project.lower()}, ...)
CreateC1SystemContext ==
    /\ variant = "c4_four"
    /\ pc = "call"
    /\ extracted' = C1Identifiers(LowerChars(text.project), C1Actors, C1ExternalFour)
    /\ pc' = "done"
    /\ ExtractFrame

GenerateC4Diagram ==
    /\ variant = "analyze_spring"
    /\ pc = "call"
    /\ extracted' = AnalyzeSpringIdentifiers(text)
    /\ pc' = "done"
    /\ ExtractFrame

NextIdentifiers ==
    \/ CreateC1ContextIdentifiers
    \/ CreateC1SystemContext
    \/ GenerateC4Diagram

SpecIdentifiers == InitIdentifiers /\ [][NextIdentifiers]_vars

(***************************************************************************)
(* Properties of the written identifiers (specification SpecIdentifiers)   *)
(***************************************************************************)
\* C12: every element identifier written into generated diagram text
\* consists only of letters, digits and underscore, for any project
\* directory name or class name.
C12_IdentifiersAreWordCharsOnly ==
    \A i \in DOMAIN extracted :
        \A j \in DOMAIN extracted[i] :
            extracted[i][j] \in AsciiLetters \cup AsciiDigits \cup {"_"}

(***************************************************************************)
(* SpringBootAnalyzer._flatten_dict and the port analyze() takes from the  *)
(* flattened properties (c4-generator/analyze_springboot.py)               *)
(***************************************************************************)
TopKeys == {"server", "port", "server.port"}

InnerKeys == {"port"}

LeafValues == {8080, 9090}

\* A value of a parsed YAML mapping: a leaf, or a nested mapping. A mapping
\* is the sequence of its (key, value) pairs in insertion order, which is
\* the order d.items() yields them in.
LeafNodes == [leaf : {TRUE}, value : LeafValues]

MappingsOver(keys, nodes) ==
    {m \in UNION {[1 .. n -> [key : keys, node : nodes]] : n \in 0 .. Cardinality(keys)} :
        \A i, j \in DOMAIN m : i # j => m[i].key # m[j].key}

InnerNodes == [leaf : {FALSE}, items : MappingsOver(InnerKeys, LeafNodes)]

YamlMappings == MappingsOver(TopKeys, LeafNodes \cup InnerNodes)

\* {server: {port: 8080}}
ExampleYaml ==
    <<[key |-> "server",
       node |-> [leaf |-> FALSE,
                 items |-> <<[key |-> "port", node |-> [leaf |-> TRUE, value |-> 8080]]>>]]>>

\* new_key = f"{parent_key}{sep}{k}" if parent_key else k
NewKey(parent_key, k) == IF parent_key # "" THEN parent_key \o "." \o k ELSE k

\* The list items of _flatten_dict(d, parent_key).
RECURSIVE FlattenItems(_, _)
FlattenItems(d, parent_key) ==
    IF d = <<>> THEN <<>>
    ELSE (IF Head(d).node.leaf
          THEN <<[key |-> NewKey(parent_key, Head(d).key), value |-> Head(d).node.value]>>
          ELSE FlattenItems(Head(d).node.items, NewKey(parent_key, Head(d).key)))
         \o FlattenItems(Tail(d), parent_key)

\* dict(items): one entry per key, holding the value of its last pair.
DictOf(items) ==
    [k \in {items[i].key : i \in DOMAIN items} |->
        items[CHOOSE i \in DOMAIN items :
                  /\ items[i].key = k
                  /\ \A j \in DOMAIN items : items[j].key = k => j <= i].value]

_flatten_dict(d) == DictOf(FlattenItems(d, ""))

InitFlatten ==
    /\ variant = "analyze_springboot"
    /\ pc = "find_application_properties"
    /\ exception = ""
    /\ text \in YamlMappings
    /\ extracted = <<>>
    /\ tree = <<>>
    /\ outputs = <<>>
    /\ service_paths = <<[name |-> "payment-service", pom |-> TRUE, gradle |-> FALSE,
                          artifactId |-> "", port |-> ""]>>
    /\ root_idx = 1
    /\ service_name = "payment-service"
    /\ props = <<>>
    /\ services = <<>>
    /\ ScanIdle /\ FailIdle /\ RenderIdle /\ DiagramIdle

\* find_application_properties on a root whose only configuration file is
\* an application.yml with the content text: props.update(self._flatten_dict(data))
FlattenApplicationYml ==
    /\ pc = "find_application_properties"
    /\ props' = _flatten_dict(text)
    /\ pc' = "extract_rest_endpoints"
    /\ UNCHANGED <<service_paths, root_idx, service_name, services, exception>>
    /\ AnalyzeFrame

NextFlatten ==
    \/ FlattenApplicationYml
    \/ ExtractRestEndpoints

SpecFlatten == InitFlatten /\ [][NextFlatten]_vars

(***************************************************************************)
(* Properties of _flatten_dict within analyze (specification SpecFlatten)  *)
(***************************************************************************)
\* The leaves of a mapping: the positions of the non-mapping values, as
\* <<i>> for a leaf at the top and <<i, j>> for a leaf of the mapping at i.
LeafPositions(d) ==
    {<<i>> : i \in {k \in DOMAIN d : d[k].node.leaf}}
    \cup UNION {{<<i, j>> : j \in DOMAIN d[i].node.items} :
                   i \in {k \in DOMAIN d : ~d[k].node.leaf}}

\* The '.'-joined path of keys from the root to a leaf, and its value.
PathOf(d, p) ==
    IF Len(p) = 1 THEN d[p[1]].key
    ELSE d[p[1]].key \o "." \o d[p[1]].node.items[p[2]].key

ValueAt(d, p) ==
    IF Len(p) = 1 THEN d[p[1]].node.value ELSE d[p[1]].node.items[p[2]].node.value

\* C13: _flatten_dict gives exactly one entry per leaf of its input, keyed
\* by the '.'-joined path of the leaf and holding its value, and for
\* {server: {port: 8080}} the port analyze() stores is 8080: analyze ends
\* without an exception and the descriptor of the root holds that port.
C13_OneEntryPerLeafAndPortExtracted ==
    /\ pc # "find_application_properties" =>
           /\ Cardinality(DOMAIN props) = Cardinality(LeafPositions(text))
           /\ \A p \in LeafPositions(text) :
                  /\ PathOf(text, p) \in DOMAIN props
                  /\ props[PathOf(text, p)] = ValueAt(text, p)
    /\ (pc \in {"done", "raised"} /\ text = ExampleYaml) =>
           /\ exception = ""
           /\ service_name \in DOMAIN services
           /\ services[service_name].port = 8080

\* The part of C13 about analyze() alone, on the mapping of the claim.
C13_ExamplePortExtracted ==
    (pc \in {"done", "raised"} /\ text = ExampleYaml) =>
        /\ exception = ""
        /\ service_name \in DOMAIN services
        /\ services[service_name].port = 8080

(***************************************************************************)
(* Database inference: SpringBootAnalyzer.extract_database_info            *)
(* (c4-generator/analyze_springboot.py) and detect_database_type           *)
(* (c4-workspace/complete-c4-analyzer.py)                                  *)
(***************************************************************************)
\* Most database words in one property value or configuration file.
MaxWords == 2

\* Most configuration files of a project.
MaxConfigFiles == 2

\* A property value or a file content is the set of database words that
\* occur in it as substrings, in the letter case they are written in.
DatabaseWords == {"postgresql", "PostgreSQL", "mysql", "mongodb"}

Texts == {w \in SUBSET DatabaseWords : Cardinality(w) <= MaxWords}

\* s.lower(), word by word.
LowerWord(w) == IF w = "PostgreSQL" THEN "postgresql" ELSE w

\* word in s.lower()
InLower(word, s) == \E w \in s : LowerWord(w) = word

ds_url_keys ==
    <<"spring.datasource.url", "spring.r2dbc.url", "datasource.url", "jdbc.url",
      "db.url", "database.url", "hibernate.connection.url">>

driver_keys == <<"jdbc.driverClassName", "db.driver", "hibernate.connection.driver_class">>

JpaKeys == {"spring.jpa.database-platform", "spring.jpa.hibernate.ddl-auto", "hibernate.dialect"}

MongoKeys == {"spring.data.mongodb.uri", "spring.data.mongodb.host", "mongodb.uri"}

\* The keys the merged properties are drawn over: datasource-URL keys and
\* a driver-class key, whose values are inspected, and JPA and MongoDB keys,
\* of which only the presence is.
SampleUrlKeys == {"spring.datasource.url", "jdbc.url"}

SampleDriverKeys == {"jdbc.driverClassName"}

SamplePresenceKeys == {"hibernate.dialect", "spring.data.mongodb.uri", "mongodb.uri"}

PropertiesOver(keys, values) == UNION {[ks -> values] : ks \in SUBSET keys}

MergedProperties ==
    {u @@ d @@ m : u \in PropertiesOver(SampleUrlKeys, Texts),
                   d \in PropertiesOver(SampleDriverKeys, Texts),
                   m \in PropertiesOver(SamplePresenceKeys, {{}})}

\* The type the chain at lines 242-255 gives a datasource URL.
UrlType(db_url) ==
    IF InLower("postgresql", db_url) THEN "PostgreSQL"
    ELSE IF InLower("mysql", db_url) THEN "MySQL"
    ELSE IF InLower("oracle", db_url) THEN "Oracle"
    ELSE IF InLower("sqlserver", db_url) THEN "SQL Server"
    ELSE IF InLower("h2", db_url) THEN "H2"
    ELSE IF InLower("mongodb", db_url) THEN "MongoDB"
    ELSE "Database"

\* for key in ds_url_keys: if key in props: ...; break
AfterUrlKeys(p) ==
    LET present == SelectSeq(ds_url_keys, LAMBDA k : k \in DOMAIN p)
    IN  IF present = <<>> THEN <<>>
        ELSE [type |-> UrlType(p[present[1]]), url |-> p[present[1]]]

\* for key in driver_keys: if key in props: ... (each branch needs an empty db_info)
RECURSIVE AfterDriverKeys(_, _, _)
AfterDriverKeys(db_info, p, keys) ==
    IF keys = <<>> THEN db_info
    ELSE LET driver == p[Head(keys)]
             next == IF Head(keys) \notin DOMAIN p \/ db_info # <<>> THEN db_info
                     ELSE IF InLower("postgresql", driver) THEN [type |-> "PostgreSQL"]
                     ELSE IF InLower("mysql", driver) THEN [type |-> "MySQL"]
                     ELSE IF InLower("oracle", driver) THEN [type |-> "Oracle"]
                     ELSE db_info
         IN  AfterDriverKeys(next, p, Tail(keys))

AfterJpaKeys(db_info, p) ==
    IF JpaKeys \cap DOMAIN p # {} /\ db_info = <<>>
    THEN [type |-> "JPA/Hibernate Database"]
    ELSE db_info

\* db_info['type'] = 'MongoDB'
SetType(db_info, type) ==
    [k \in DOMAIN db_info \cup {"type"} |-> IF k = "type" THEN type ELSE db_info[k]]

\* A mutation of the MongoDB check: it sets the type only while db_info is empty.
AfterMongoKeysIfEmpty(db_info, p) ==
    IF MongoKeys \cap DOMAIN p # {} /\ db_info = <<>>
    THEN SetType(db_info, "MongoDB")
    ELSE db_info

AfterMongoKeys(db_info, p) ==
    IF MongoKeys \cap DOMAIN p # {} THEN SetType(db_info, "MongoDB") ELSE db_info

extract_database_info(p) ==
    AfterMongoKeys(AfterJpaKeys(AfterDriverKeys(AfterUrlKeys(p), p, driver_keys), p), p)

\* detect_database_type over config_files[:3], each file given by its content.
RECURSIVE detect_database_type(_)
detect_database_type(files) ==
    IF files = <<>> THEN "Database"
    ELSE IF InLower("mysql", Head(files)) THEN "MySQL"
    ELSE IF InLower("postgresql", Head(files)) THEN "PostgreSQL"
    ELSE IF InLower("oracle", Head(files)) THEN "Oracle"
    ELSE detect_database_type(Tail(files))

InitDatabase ==
    /\ variant \in {"extract_database_info", "detect_database_type"}
    /\ pc = "call"
    /\ exception = ""
    /\ IF variant = "extract_database_info"
       THEN props \in MergedProperties /\ tree = <<>>
       ELSE props = <<>> /\ tree \in UNION {[1 .. n -> Texts] : n \in 0 .. MaxConfigFiles}
    /\ extracted = <<>>
    /\ outputs = <<>>
    /\ service_paths = <<>> /\ root_idx = 0 /\ service_name = "" /\ services = <<>>
    /\ text = <<>>
    /\ ScanIdle /\ FailIdle /\ RenderIdle /\ DiagramIdle

DatabaseFrame ==
    /\ UNCHANGED <<variant, exception, text, runVars, analyzeVars>>
    /\ UNCHANGED <<scanVars, failVars, renderVars, diagramVars>>

ExtractDatabaseInfo ==
    /\ variant = "extract_database_info"
    /\ pc = "call"
    /\ extracted' = extract_database_info(props)
    /\ pc' = "done"
    /\ DatabaseFrame

DetectDatabaseType ==
    /\ variant = "detect_database_type"
    /\ pc = "call"
    /\ extracted' = [type |-> detect_database_type(Take(tree, 3))]
    /\ pc' = "done"
    /\ DatabaseFrame

NextDatabase ==
    \/ ExtractDatabaseInfo
    \/ DetectDatabaseType

SpecDatabase == InitDatabase /\ [][NextDatabase]_vars

(***************************************************************************)
(* Properties of database inference (specification SpecDatabase)           *)
(***************************************************************************)
\* The configuration holds a datasource URL with "postgresql" in some letter
\* case: under a recognised URL key of the merged properties, or in a
\* configuration file.
HasPostgresUrl ==
    \/ \E i \in DOMAIN ds_url_keys :
           ds_url_keys[i] \in DOMAIN props /\ InLower("postgresql", props[ds_url_keys[i]])
    \/ \E i \in DOMAIN tree : InLower("postgresql", tree[i])

HasMongoKey == MongoKeys \cap DOMAIN props # {}

\* C14: whenever the configuration contains a datasource URL with the
\* substring "postgresql" in any letter case and no MongoDB key is present,
\* the inferred database type is PostgreSQL.
C14_PostgresUrlGivesPostgreSQL ==
    (pc = "done" /\ HasPostgresUrl /\ ~HasMongoKey) => extracted.type = "PostgreSQL"

MaxPropertyFiles == 2

\* Directories, relative to the project root, a configuration file lies in.
ConfigDirs ==
    {"src/main/resources", "target/classes", "build/resources/main", "src/main/targets"}

\* 'target' in str(prop_file)
ContainsTarget(dir) == dir \in {"target/classes", "src/main/targets"}

ConfigKinds == {"config.properties", "application.yml", "application.properties"}

PropertyKeys == {"server.port", "port"}

PropertyValues == {"8080", "9090"}

\* A configuration file: where it lies, which pattern finds it, and the
\* key = value entries it holds (for application.yml, after flattening).
ConfigFiles ==
    [dir : ConfigDirs, kind : ConfigKinds,
     entries : PropertiesOver(PropertyKeys, PropertyValues)]

\* props[key] = value for every entry of the file at position i of the
\* listing; source remembers the position of the file the value came from.
MergeFile(p, files, i) ==
    [k \in DOMAIN p \cup DOMAIN files[i].entries |->
        IF k \in DOMAIN files[i].entries
        THEN [value |-> files[i].entries[k], source |-> i]
        ELSE p[k]]

\* One of the three loops: the files of one kind in listing order, those
\* with 'target' in their path skipped.
RECURSIVE MergeKind(_, _, _, _)
MergeKind(p, files, kind, i) ==
    IF i > Len(files) THEN p
    ELSE MergeKind(IF files[i].kind = kind /\ ~ContainsTarget(files[i].dir)
                   THEN MergeFile(p, files, i)
                   ELSE p,
                   files, kind, i + 1)

find_application_properties(files) ==
    MergeKind(MergeKind(MergeKind(<<>>, files, "config.properties", 1),
                        files, "application.yml", 1),
              files, "application.properties", 1)

InitProperties ==
    /\ variant = "find_application_properties"
    /\ pc = "call"
    /\ exception = ""
    /\ tree \in UNION {[1 .. n -> ConfigFiles] : n \in 0 .. MaxPropertyFiles}
    /\ outputs = <<>>
    /\ AnalyzeIdle
    /\ ScanIdle /\ FailIdle /\ RenderIdle /\ DiagramIdle /\ ExtractIdle

FindApplicationPropertiesCall ==
    /\ pc = "call"
    /\ variant = "find_application_properties"
    /\ props' = find_application_properties(tree)
    /\ pc' = "done"
    /\ UNCHANGED <<service_paths, root_idx, service_name, services, exception>>
    /\ AnalyzeFrame

NextProperties == FindApplicationPropertiesCall

SpecProperties == InitProperties /\ [][NextProperties]_vars

(***************************************************************************)
(* Properties of find_application_properties (specification SpecProperties)*)
(***************************************************************************)
\* The directories that are build output: under target or under build.
BuildOutputDirs == {"target/classes", "build/resources/main"}

\* C16: no entry of the returned mapping comes from a configuration file
\* under a build-output directory (target, build).
C16_NoEntryFromBuildOutput ==
    pc = "done" =>
        \A k \in DOMAIN props : tree[props[k].source].dir \notin BuildOutputDirs

(***************************************************************************)
(* The enumeration of candidate source files: scan_project                 *)
(* (reveng-toolkit/analyzer.py), analyze_spring_components                 *)
(* (c4-workspace/complete-c4-analyzer.py) and extract_feign_clients        *)
(* (c4-generator/analyze_springboot.py)                                    *)
(***************************************************************************)
\* Directories, relative to the project root, a .java file lies in.
SourceDirs ==
    {"src/main/java", "target/generated-sources", "build/generated", "node_modules/lib",
     ".git/hooks", ".cache"}

\* The directory, or one above it, has a name that starts with '.'.
IsHidden(dir) == dir \in {".git/hooks", ".cache"}

\* The .java files of a project tree, in the order the listing yields them.
TreeJavaFiles ==
    [stem : {"FooController"}, dir : SourceDirs,
     content : {{}, {"@RestController"}, {"@FeignClient"}}]

\* glob.glob(os.path.join(src_path, "**/*.java"), recursive=True): the
\* positions of the files found; glob does not descend into directories
\* whose name starts with '.'.
GlobJava(t) == SelectSeq([i \in DOMAIN t |-> i], LAMBDA i : ~IsHidden(t[i].dir))

\* Path(project_path).rglob("*.java"): every .java file below the root.
RglobJava(t) == [i \in DOMAIN t |-> i]

\* The body of the loop over java_files in the scan v.
ClassifyIn(v, c, f, idx) ==
    IF v = "scan_project" THEN ClassifyScanProject(c, f, idx) ELSE ClassifyComplete(c, f, idx)

\* The loop over java_files in the scan v.
RECURSIVE ScanFiles(_, _, _, _)
ScanFiles(v, c, t, java_files) ==
    IF java_files = <<>> THEN c
    ELSE ScanFiles(v, ClassifyIn(v, c, t[Head(java_files)], Head(java_files)), t,
                   Tail(java_files))

InitEnumerate ==
    /\ variant \in {"scan_project", "complete", "extract_feign_clients"}
    /\ pc = "call"
    /\ exception = ""
    /\ tree \in UNION {[1 .. n -> TreeJavaFiles] : n \in 0 .. MaxTreeFiles}
    /\ outputs = <<>>
    /\ scanned = 0
    /\ java_file = ""
    /\ build_file = (variant = "scan_project")
    /\ components = <<>>
    /\ extracted = <<>>
    /\ text = <<>>
    /\ FailIdle /\ AnalyzeIdle /\ RenderIdle /\ DiagramIdle

EnumerateFrame ==
    /\ UNCHANGED <<variant, exception, tree, build_file, java_file, text>>
    /\ UNCHANGED <<failVars, analyzeVars, renderVars, diagramVars>>

\* scan_project on a root with a pom.xml: every file glob finds is listed
\* as a component of the main container.
ScanProjectTree ==
    /\ variant = "scan_project"
    /\ pc = "call"
    /\ extracted' = GlobJava(tree)
    /\ scanned' = Len(GlobJava(tree))
    /\ components' = ScanFiles("scan_project", EmptyComponents(KeysScanProject), tree,
                               GlobJava(tree))
    /\ outputs' = outputs
    /\ pc' = "done"
    /\ EnumerateFrame

\* analyze_spring_components of complete-c4-analyzer over rglob("*.java").
AnalyzeSpringComponentsTree ==
    /\ variant = "complete"
    /\ pc = "call"
    /\ extracted' = RglobJava(tree)
    /\ scanned' = Len(tree)
    /\ components' = ScanFiles("complete", EmptyComponents(KeysComplete), tree,
                               RglobJava(tree))
    /\ outputs' = outputs
    /\ pc' = "done"
    /\ EnumerateFrame

\* extract_feign_clients over service_path.rglob('*.java'): outputs holds
\* the positions of the files a @FeignClient name was taken from.
ExtractFeignClientsTree ==
    /\ variant = "extract_feign_clients"
    /\ pc = "call"
    /\ extracted' = RglobJava(tree)
    /\ scanned' = Len(tree)
    /\ outputs' = SelectSeq(RglobJava(tree), LAMBDA i : "@FeignClient" \in tree[i].content)
    /\ components' = components
    /\ pc' = "done"
    /\ EnumerateFrame

NextEnumerate ==
    \/ ScanProjectTree
    \/ AnalyzeSpringComponentsTree
    \/ ExtractFeignClientsTree

SpecEnumerate == InitEnumerate /\ [][NextEnumerate]_vars

(***************************************************************************)
(* Properties of the enumeration (specification SpecEnumerate)             *)
(***************************************************************************)
\* The file lies under a directory whose name starts with '.' or is one of
\* target, build, node_modules, .git.
UnderExcludedDir(f) == f.dir # "src/main/java"

\* C17: no file under a directory whose name starts with '.' or is one of
\* target, build, node_modules, .git is enumerated as a candidate source
\* file, classified, or listed as a component.
C17_NoFileFromExcludedDirs ==
    pc = "done" =>
        /\ \A i \in DOMAIN extracted : ~UnderExcludedDir(tree[extracted[i]])
        /\ \A k \in DOMAIN components :
               \A i \in FilesOf(components[k]) : ~UnderExcludedDir(tree[i])
        /\ \A i \in DOMAIN outputs : ~UnderExcludedDir(tree[outputs[i]])

(***************************************************************************)
(* analyze_spring_components followed by create_c3_component_diagram       *)
(* (c4-workspace/validated-c4-diagrams.py)                                 *)
(***************************************************************************)
\* Longest listing of *.java files the scan before the C3 diagram walks.
MaxC3Files == 2

C3Stems == {"paymentService", "OrderController", "orderRepository"}

\* The names the injection patterns capture: the name of the @Autowired
\* field, or the name of the constructor parameter.
C3Fields == {"paymentService", "orderRepository", "auditLog"}

C3Markers ==
    {"@RestController", "@Service", "@Repository", "JpaRepository", "@Entity",
     "@Configuration"}

C3Files ==
    [stem : C3Stems, content : {{}} \cup {{m} : m \in C3Markers},
     fields : {<<>>} \cup {<<x>> : x \in C3Fields}]

\* name.lower()
LowerName(name) ==
    CASE name = "paymentService" -> "paymentservice"
      [] name = "OrderController" -> "ordercontroller"
      [] name = "orderRepository" -> "orderrepository"
      [] name = "PaymentService" -> "paymentservice"
      [] name = "AuditLog" -> "auditlog"
      [] name = "Payment" -> "payment"
      [] name = "Merchant" -> "merchant"
      [] name = "Order" -> "order"
      [] name = "Transaction" -> "transaction"
      [] name = "PaymentController" -> "paymentcontroller"
      [] name = "MerchantController" -> "merchantcontroller"
      [] name = "NotificationService" -> "notificationservice"
      [] name = "PaymentRepository" -> "paymentrepository"
      [] OTHER -> name

\* any(keyword in lname for keyword in keywords)
AnyKeywordIn(keywords, lname) ==
    \/ /\ lname \in {"paymentservice", "paymentcontroller", "paymentrepository", "payment"}
       /\ "payment" \in keywords
    \/ lname = "transaction" /\ "transaction" \in keywords

\* find_autowired_dependencies(content, class_name): one edge per captured
\* name, from the class to that name.
AutowiredEdges(f) ==
    [i \in DOMAIN f.fields |-> [from |-> f.stem, to |-> f.fields[i], type |-> "autowired"]]

ScanResult(c, d) == [components |-> c, dependencies |-> d]

\* The two branches that append the entry and then record its edges in the
\* entry and in the list of all edges.
AppendWithEdges(c, d, key, f, idx) ==
    LET deps == AutowiredEdges(f)
    IN  ScanResult(SetDependencies(Add(c, key, ComponentInfo(f, idx)), key, deps), d \o deps)

\* The body of the loop of analyze_spring_components for a file that is read
\* and printed without failure.
ClassifyValidatedEdges(c, d, f, idx) ==
    IF "@RestController" \in f.content THEN AppendWithEdges(c, d, "rest_controllers", f, idx)
    ELSE IF "@Service" \in f.content THEN AppendWithEdges(c, d, "services", f, idx)
    ELSE IF "@Repository" \in f.content \/ "JpaRepository" \in f.content
    THEN IF "@Repository" \in f.content
         THEN ScanResult(Add(c, "repositories", ComponentInfo(f, idx)), d)
         ELSE ScanResult(Add(c, "jpa_repositories", ComponentInfo(f, idx)), d)
    ELSE IF "@Entity" \in f.content
    THEN ScanResult(Add(c, "entities", ComponentInfo(f, idx)), d)
    ELSE IF "@Configuration" \in f.content
    THEN ScanResult(Add(c, "configs", ComponentInfo(f, idx)), d)
    ELSE ScanResult(c, d)

\* controllers = components['rest_controllers'][:4]
C3Controllers(c) == Take(c["rest_controllers"], 4)

\* services = components['services'][:6]
C3Services(c) == Take(c["services"], 6)

\* repos = (components['repositories'] + components['jpa_repositories'])[:4]
C3Repos(c) == Take(c["repositories"] \o c["jpa_repositories"], 4)

\* The Rel lines of a pair of nested loops: for each entry of `sources`, for
\* each edge leaving its name, one line when the target of the edge is the
\* name of an entry of `targets`.
RelsBetween(sources, targets, d) ==
    {<<s, e>> \in (DOMAIN sources) \X (DOMAIN d) :
        d[e].from = sources[s].name /\ d[e].to \in NamesOf(targets)}

\* The Rel lines to raast_system and to bank_api.
ExternalRels(services_) ==
    {<<s, "raast_system">> : s \in {x \in DOMAIN services_ :
        AnyKeywordIn({"payment", "raast", "transaction"}, LowerName(services_[x].name))}}
    \cup {<<s, "bank_api">> : s \in {x \in DOMAIN services_ :
        AnyKeywordIn({"bank", "financial"}, LowerName(services_[x].name))}}

InitValidated ==
    /\ variant = "validated"
    /\ pc = "scan"
    /\ exception = ""
    /\ scanned = 0
    /\ java_file = ""
    /\ build_file = FALSE
    /\ components = EmptyComponents(KeysValidated)
    /\ dependencies = <<>>
    /\ ref_components = <<>>
    /\ ref_dependencies = <<>>
    /\ puml = <<>>
    /\ total_components = -1
    /\ valid_relationships = 0
    /\ AnalyzeIdle /\ RenderIdle /\ RunIdle /\ ExtractIdle

ValidatedFrame ==
    /\ UNCHANGED <<variant, exception, build_file, ref_components, ref_dependencies>>
    /\ UNCHANGED <<puml, total_components>>
    /\ UNCHANGED <<analyzeVars, renderVars, runVars, extractVars>>

\* One iteration of the for loop over java_files.
AnalyzeSpringComponentsEdges ==
    /\ pc = "scan"
    /\ scanned < MaxC3Files
    /\ \E f \in C3Files :
           LET r == ClassifyValidatedEdges(components, dependencies, f, scanned + 1)
           IN  /\ java_file' = f.stem
               /\ components' = r.components
               /\ dependencies' = r.dependencies
    /\ scanned' = scanned + 1
    /\ UNCHANGED <<pc, valid_relationships>>
    /\ ValidatedFrame

\* return components, dependencies; the main loop passes both on to
\* create_c3_component_diagram, which starts with valid_relationships = 0.
ReturnComponentsAndDependencies ==
    /\ pc = "scan"
    /\ pc' = "controller_service"
    /\ valid_relationships' = 0
    /\ UNCHANGED <<scanned, java_file, components, dependencies>>
    /\ ValidatedFrame

CountRels(at, n, next) ==
    /\ pc = at
    /\ valid_relationships' = valid_relationships + n
    /\ pc' = next
    /\ UNCHANGED <<scanned, java_file, components, dependencies>>
    /\ ValidatedFrame

\* Controller -> Service relationships
ControllerServiceRelationships ==
    CountRels("controller_service",
              Cardinality(RelsBetween(C3Controllers(components), C3Services(components),
                                      dependencies)),
              "service_repository")

\* Service -> Repository relationships
ServiceRepositoryRelationships ==
    CountRels("service_repository",
              Cardinality(RelsBetween(C3Services(components), C3Repos(components),
                                      dependencies)),
              "repository_database")

\* Repository -> Database relationships: one for every repository listed.
RepositoryDatabaseRelationships ==
    CountRels("repository_database", Len(C3Repos(components)), "service_external")

\* Service -> External systems (based on naming patterns); then the note,
\* the write of the file and the return of valid_relationships.
ServiceExternalRelationships ==
    CountRels("service_external", Cardinality(ExternalRels(C3Services(components))), "done")

NextValidated ==
    \/ AnalyzeSpringComponentsEdges
    \/ ReturnComponentsAndDependencies
    \/ ControllerServiceRelationships
    \/ ServiceRepositoryRelationships
    \/ RepositoryDatabaseRelationships
    \/ ServiceExternalRelationships

SpecValidated == InitValidated /\ [][NextValidated]_vars

(***************************************************************************)
(* Properties of the validated relationships (specification SpecValidated) *)
(***************************************************************************)
\* The names of the known components: every entry of every collection.
KnownNames(c) == UNION {NamesOf(c[k]) : k \in DOMAIN c}

\* The edges recorded in the entries of the collections, by position.
EdgesOfEntries(c) ==
    {<<k, i, j>> \in (DOMAIN c) \X (1 .. MaxC3Files) \X (1 .. 1) :
        i \in DOMAIN c[k] /\ j \in DOMAIN c[k][i].dependencies}

\* The edges of the list whose target is the name of a known component.
MatchingEdges(c, d) == {e \in DOMAIN d : d[e].to \in KnownNames(c)}

\* C18: the dependency list returned by analyze_spring_components keeps every
\* extracted edge, dangling or not, and the "validated relationships" count
\* of create_c3_component_diagram equals the number of those edges whose
\* target name matches a known component.
C18_ValidCountIsMatchingEdges ==
    /\ Len(dependencies) = Cardinality(EdgesOfEntries(components))
    /\ \A t \in EdgesOfEntries(components) :
           components[t[1]][t[2]].dependencies[t[3]] \in Range(dependencies)
    /\ pc = "done" =>
           valid_relationships = Cardinality(MatchingEdges(components, dependencies))

(***************************************************************************)
(* The bounded listings of the report and of the notes:                    *)
(* SpringBootAnalyzer.generate_report (c4-generator/analyze_springboot.py),*)
(* create_comprehensive_diagram (c4-workspace/complete-c4-analyzer.py),    *)
(* create_rich_architecture_diagram (c4-workspace/hybrid-analyze.py)       *)
(***************************************************************************)
\* Largest number of items found for a category.
MaxItems == 11

ItemNames == {"A", "B"}

ItemLists == UNION {[1 .. n -> ItemNames] : n \in 0 .. MaxItems}

\* The listings, each named by its function and the category it lists.
Listings ==
    {"generate_report.controllers", "generate_report.endpoints",
     "generate_report.services", "generate_report.daos", "generate_report.entities",
     "create_comprehensive_diagram.api_endpoints",
     "create_rich_architecture_diagram.entities"}

CategoryOf(v) ==
    CASE v = "generate_report.controllers" -> "controllers"
      [] v = "generate_report.endpoints" -> "endpoints"
      [] v = "generate_report.services" -> "services"
      [] v = "generate_report.daos" -> "daos"
      [] v = "generate_report.entities" -> "entities"
      [] v = "create_comprehensive_diagram.api_endpoints" -> "api_endpoints"
      [] v = "create_rich_architecture_diagram.entities" -> "entities"

\* The n of the slice [:n] each listing takes.
DisplayBound(v) ==
    CASE v = "generate_report.controllers" -> 10
      [] v = "generate_report.endpoints" -> 10
      [] v = "generate_report.services" -> 5
      [] v = "generate_report.daos" -> 5
      [] v = "generate_report.entities" -> 5
      [] v = "create_comprehensive_diagram.api_endpoints" -> 4
      [] v = "create_rich_architecture_diagram.entities" -> 8

\* return endpoints[:8]  # Return first 8 endpoints
extract_api_endpoints(found) == Take(found, 8)

\* The lines a listing appends: the items of the slice and, where the code
\* has the `if len(...) > n` statement, the line counting the rest
\* (more = 0: no such line).
ListedLines(items, n, has_suffix) ==
    [listed |-> Take(items, n),
     more |-> IF has_suffix /\ Len(items) > n THEN Len(items) - n ELSE 0]

InitListing ==
    /\ variant \in Listings
    /\ pc = "list"
    /\ exception = ""
    /\ \E items \in ItemLists : components = [k \in {CategoryOf(variant)} |-> items]
    /\ scanned = 0 /\ java_file = "" /\ build_file = FALSE
    /\ puml = <<>>
    /\ total_components = -1
    /\ valid_relationships = 0
    /\ FailIdle /\ AnalyzeIdle /\ RenderIdle /\ RunIdle /\ ExtractIdle

ListingFrame ==
    /\ UNCHANGED <<variant, exception, scanVars, total_components, valid_relationships>>
    /\ UNCHANGED <<failVars, analyzeVars, renderVars, runVars, extractVars>>

List(v, lines) ==
    /\ variant = v
    /\ pc = "list"
    /\ puml' = lines
    /\ pc' = "done"
    /\ ListingFrame

\* - **REST Controllers Found**: the first 10 names, joined.
ReportControllers ==
    List("generate_report.controllers", ListedLines(components["controllers"], 10, FALSE))

\* - **REST Endpoints Found**: the first 10, then "... and N more".
ReportEndpoints ==
    List("generate_report.endpoints", ListedLines(components["endpoints"], 10, TRUE))

\* - **Service Classes**: the first 5 names, joined.
ReportServices ==
    List("generate_report.services", ListedLines(components["services"], 5, FALSE))

\* - **DAO/Repository Classes**: the first 5 names, joined.
ReportDaos ==
    List("generate_report.daos", ListedLines(components["daos"], 5, FALSE))

\* - **Entity Classes**: the first 5 names, joined.
ReportEntities ==
    List("generate_report.entities", ListedLines(components["entities"], 5, FALSE))

\* note left of api, **Key API Endpoints**: the first 4 of
\* details['api_endpoints'], which extract_api_endpoints cut to the first 8
\* found, then "... N more endpoints".
ComprehensiveEndpointsNote ==
    List("create_comprehensive_diagram.api_endpoints",
         ListedLines(extract_api_endpoints(components["api_endpoints"]), 4, TRUE))

\* note right of database, **Database Schema**: the first 8 entity names,
\* then "... and N more".
RichEntitiesNote ==
    List("create_rich_architecture_diagram.entities",
         ListedLines(components["entities"], 8, TRUE))

NextListing ==
    \/ ReportControllers
    \/ ReportEndpoints
    \/ ReportServices
    \/ ReportDaos
    \/ ReportEntities
    \/ ComprehensiveEndpointsNote
    \/ RichEntitiesNote

SpecListing == InitListing /\ [][NextListing]_vars

(***************************************************************************)
(* Properties of the bounded listings (specification SpecListing)          *)
(***************************************************************************)
\* The items found for the category the listing is about.
ItemsFound == components[CategoryOf(variant)]

\* C19: in every listing of a category with a display bound B, a category of
\* more than B items is listed as its first B items, in collection order,
\* followed by an "and N more" line with N = the number of items found minus
\* B; a category of at most B items is listed whole, with no such line.
C19_FirstItemsThenAndNMore ==
    pc = "done" =>
        IF Len(ItemsFound) > DisplayBound(variant)
        THEN /\ puml.listed = SubSeq(ItemsFound, 1, DisplayBound(variant))
             /\ puml.more = Len(ItemsFound) - DisplayBound(variant)
        ELSE /\ puml.listed = ItemsFound
             /\ puml.more = 0

(***************************************************************************)
(* The start of a run on the input directory: main of                      *)
(* c4-workspace/scripts/analyze_spring.py and the module bodies of         *)
(* c4-workspace/analyze.py and c4-workspace/deep-analyze.py                *)
(***************************************************************************)
\* Most entries of the input directory.
MaxEntries == 2

\* What os.listdir(input_dir) can hold: directories and plain files.
InputEntries ==
    {[name |-> "shop", is_dir |-> TRUE], [name |-> "bank", is_dir |-> TRUE],
     [name |-> "README.md", is_dir |-> FALSE]}

\* The input directory at the start of the run: absent, or present with a
\* listing of distinct entries. made: the run created it.
InputDirs ==
    {[exists |-> FALSE, made |-> FALSE, entries |-> <<>>]}
    \cup {[exists |-> TRUE, made |-> FALSE, entries |-> l] :
            l \in {e \in UNION {[1 .. n -> InputEntries] : n \in 0 .. MaxEntries} :
                      \A i, j \in DOMAIN e : i # j => e[i].name # e[j].name}}

StartupScripts == {"analyze_spring", "analyze", "deep_analyze"}

\* The text files a script writes for a project.
OutputsOf(v) ==
    CASE v = "analyze_spring" -> {"c4_diagram.puml", "analysis.json"}
      [] v = "analyze" -> {"architecture.puml"}
      [] v = "deep_analyze" -> {"deep_architecture.puml"}

\* [d for d in os.listdir(input_dir) if os.path.isdir(os.path.join(input_dir, d))]
ProjectDirs(entries) == SelectSeq(entries, LAMBDA e : e.is_dir)

NamesIn(entries) == [i \in DOMAIN entries |-> entries[i].name]

InitStartup ==
    /\ variant \in StartupScripts
    /\ pc = "start"
    /\ exception = ""
    /\ tree \in InputDirs
    /\ outputs = <<>>
    /\ projects = <<>>
    /\ proj_idx = 0
    /\ analysed = {}
    /\ written = {}
    /\ renderer_exit = <<>>
    /\ console = <<>>
    /\ ScanIdle /\ FailIdle /\ AnalyzeIdle /\ DiagramIdle /\ ExtractIdle

StartupFrame ==
    /\ UNCHANGED <<variant, exception, outputs, renderer_exit>>
    /\ UNCHANGED <<scanVars, failVars, analyzeVars, diagramVars, extractVars>>

\* analyze_spring.py: if not os.path.exists(input_dir): print(...); return
CheckInputDir ==
    /\ variant = "analyze_spring"
    /\ pc = "start"
    /\ IF tree.exists
       THEN console' = console /\ pc' = "listdir"
       ELSE /\ console' = Append(console, "Input directory /workspace/input does not exist!")
            /\ pc' = "done"
    /\ UNCHANGED <<tree, projects, proj_idx, analysed, written>>
    /\ StartupFrame

\* analyze.py, deep-analyze.py: os.makedirs(input_dir, exist_ok=True)
MakeInputDir ==
    /\ variant \in {"analyze", "deep_analyze"}
    /\ pc = "start"
    /\ tree' = [tree EXCEPT !.made = ~tree.exists]
    /\ pc' = "listdir"
    /\ UNCHANGED <<projects, proj_idx, analysed, written, console>>
    /\ StartupFrame

\* projects = [d for d in os.listdir(input_dir) if os.path.isdir(...)]
ListInputDir ==
    /\ pc = "listdir"
    /\ projects' = NamesIn(ProjectDirs(tree.entries))
    /\ pc' = IF variant = "deep_analyze" THEN "for" ELSE "if_not_projects"
    /\ UNCHANGED <<tree, proj_idx, analysed, written, console>>
    /\ StartupFrame

\* analyze_spring.py: if not projects: print(...); print(...); return
IfNotProjectsReturn ==
    /\ variant = "analyze_spring"
    /\ pc = "if_not_projects"
    /\ IF projects = <<>>
       THEN /\ console' = console \o <<"No projects found in input directory!",
                    "Please copy your Spring Boot projects to the 'input' folder">>
            /\ pc' = "done"
       ELSE console' = console /\ pc' = "for"
    /\ UNCHANGED <<tree, projects, proj_idx, analysed, written>>
    /\ StartupFrame

\* analyze.py: if not projects: the two messages, then sample_architecture
\* .puml is written and the renderer is run on it; else the loop.
IfNotProjectsSample ==
    /\ variant = "analyze"
    /\ pc = "if_not_projects"
    /\ IF projects = <<>>
       THEN /\ console' = console \o <<"No Spring Boot projects found in input directory!",
                    "Creating a sample diagram to demonstrate...">>
            /\ \E status \in {0, 1} :
                   written' = written \cup {<<0, "sample_architecture.puml">>}
                       \cup (IF status = 0 THEN {<<0, "sample_architecture.png">>} ELSE {})
            /\ pc' = "complete"
       ELSE console' = console /\ written' = written /\ pc' = "for"
    /\ UNCHANGED <<tree, projects, proj_idx, analysed>>
    /\ StartupFrame

\* One iteration of `for project in projects`: the project is analysed and
\* its files are written; after the last project the loop is left.
ForProject ==
    /\ pc = "for"
    /\ IF proj_idx < Len(projects)
       THEN /\ proj_idx' = proj_idx + 1
            /\ analysed' = analysed \cup {proj_idx + 1}
            /\ written' = written \cup {<<proj_idx + 1, o>> : o \in OutputsOf(variant)}
            /\ pc' = "for"
       ELSE /\ UNCHANGED <<proj_idx, analysed, written>>
            /\ pc' = IF variant = "analyze_spring" THEN "done" ELSE "complete"
    /\ UNCHANGED <<tree, projects, console>>
    /\ StartupFrame

\* analyze.py, deep-analyze.py: the closing banner, printed on every run.
PrintComplete ==
    /\ pc = "complete"
    /\ console' = Append(console, IF variant = "analyze" THEN "ANALYSIS COMPLETE!"
                                  ELSE "DEEP ARCHITECTURE ANALYSIS COMPLETE!")
    /\ pc' = "done"
    /\ UNCHANGED <<tree, projects, proj_idx, analysed, written>>
    /\ StartupFrame

NextStartup ==
    \/ CheckInputDir
    \/ MakeInputDir
    \/ ListInputDir
    \/ IfNotProjectsReturn
    \/ IfNotProjectsSample
    \/ ForProject
    \/ PrintComplete

SpecStartup == InitStartup /\ [][NextStartup]_vars

(***************************************************************************)
(* Properties of the start of a run (specification SpecStartup)            *)
(***************************************************************************)
\* The input directory was missing, or held no project directory.
NoProjectDirectory == ~tree.exists \/ ProjectDirs(tree.entries) = <<>>

\* The messages that tell the user of a missing or empty input directory.
StartupReports ==
    {"Input directory /workspace/input does not exist!",
     "No projects found in input directory!",
     "No Spring Boot projects found in input directory!"}

\* C20: when the input directory is missing or contains no project
\* directory, the run reports this with a user-facing message and ends
\* early: no project is analysed and no diagram or report file is written.
C20_NoProjectsReportedNothingWritten ==
    (pc = "done" /\ NoProjectDirectory) =>
        /\ \E i \in DOMAIN console : console[i] \in StartupReports
        /\ analysed = {}
        /\ written = {}

(***************************************************************************)
(* Properties of SpringBootAnalyzer.analyze, continued (SpecAnalyze)       *)
(***************************************************************************)
\* C21: after analyze(), self.services holds exactly one descriptor per
\* discovered project root: the number of entries equals the number of roots
\* returned by find_microservices, and no two roots share an entry.
C21_OneDescriptorPerRoot ==
    pc \in {"done", "raised"} =>
        /\ Cardinality(DOMAIN services) = Len(service_paths)
        /\ \A i, j \in DOMAIN service_paths :
               i # j => ServiceNameOf(service_paths[i]) # ServiceNameOf(service_paths[j])

(***************************************************************************)
(* hybrid_spring_analysis (c4-workspace/hybrid-analyze.py) on texts that   *)
(* hold the marker substrings of its rules                                 *)
(***************************************************************************)
\* The substrings the rules of the chain test for, one per rule (of the
\* three repository interfaces: JpaRepository), the substring of the rule
\* for REST clients, and the word the naming fallbacks test for.
HybridMarkers ==
    {"@RestController", "@Controller", "@Service", "@Repository", "JpaRepository",
     "@Entity", "@Configuration", "@Component", "@FeignClient", "interface"}

\* Texts holding at most two of these substrings.
HybridContents == {a \cup b : a, b \in {{}} \cup {{m} : m \in HybridMarkers}}

HybridFiles == [stem : {"Foo", "FooService"}, dir : Dirs, content : HybridContents]

InitHybrid ==
    /\ variant = "hybrid"
    /\ pc = "scan"
    /\ scanned = 0
    /\ java_file = NoFile
    /\ components = EmptyComponents(KeysComplete)
    /\ build_file = FALSE
    /\ exception = ""
    /\ FailIdle /\ AnalyzeIdle /\ RenderIdle /\ DiagramIdle /\ RunIdle /\ ExtractIdle

\* One iteration of the for loop over java_files.
HybridSpringAnalysisTexts ==
    \E f \in HybridFiles : Step("hybrid", f, ClassifyHybrid(components, f, scanned + 1))

NextHybrid ==
    \/ HybridSpringAnalysisTexts
    \/ ScanReturn

SpecHybrid == InitHybrid /\ [][NextHybrid]_vars

(***************************************************************************)
(* Properties of hybrid_spring_analysis (specification SpecHybrid)         *)
(***************************************************************************)
\* The fixed order of the rules: the substrings of each rule and its kind.
RuleOrder ==
    <<[markers |-> {"@RestController"}, kind |-> "rest_controllers"],
      [markers |-> {"@Controller"}, kind |-> "controllers"],
      [markers |-> {"@Service"}, kind |-> "services"],
      [markers |-> {"@Repository"}, kind |-> "repositories"],
      [markers |-> {"JpaRepository", "CrudRepository", "MongoRepository"},
       kind |-> "jpa_repositories"],
      [markers |-> {"@Entity"}, kind |-> "entities"],
      [markers |-> {"@Configuration"}, kind |-> "configs"],
      [markers |-> {"@Component"}, kind |-> "components"]>>

MatchingRules(content) == {r \in DOMAIN RuleOrder : RuleOrder[r].markers \cap content # {}}

EarliestRule(content) ==
    CHOOSE r \in MatchingRules(content) : \A q \in MatchingRules(content) : r <= q

\* The entries recorded for the file at position i.
EntriesOf(i) ==
    {e \in UNION {Range(components[k]) : k \in DOMAIN components} : e.file = i}

\* C22: hybrid_spring_analysis assigns a file whose text holds marker
\* substrings of several kinds to the kind of the earliest matching rule in
\* the order @RestController, @Controller, @Service, @Repository,
\* JpaRepository/CrudRepository/MongoRepository, @Entity, @Configuration,
\* @Component, and to that kind only; the naming-convention fallbacks are
\* evaluated only when none of these rules matched: a file with a matching
\* rule gets no inferred entry.
C22_EarliestRuleWins ==
    (scanned >= 1 /\ MatchingRules(java_file.content) # {}) =>
        /\ CollectionsOf(scanned) = {RuleOrder[EarliestRule(java_file.content)].kind}
        /\ Occurrences(components[RuleOrder[EarliestRule(java_file.content)].kind], scanned) = 1
        /\ \A e \in EntriesOf(scanned) : ~e.inferred

\* C22, its example: a file holding both @Service and @Entity has been
\* scanned after another file and is recorded as a service, not as an entity.
C22_ServiceAndEntityIsService ==
    /\ scanned = 2
    /\ java_file.content = {"@Service", "@Entity"}
    /\ CollectionsOf(2) = {"services"}
    /\ CollectionsOf(1) = {"entities"}

(***************************************************************************)
(* SpringBootAnalyzer.find_application_properties, line by line            *)
(* (c4-generator/analyze_springboot.py)                                    *)
(***************************************************************************)
\* The key = value lines of a configuration file, in file order (for a YAML
\* file: the items of the flattened mapping, in order). Up to two lines
\* that set server.port, or one line that sets port.
PropertyLines ==
    LET sp == {[key |-> "server.port", value |-> v] : v \in PropertyValues}
    IN  {<<>>, <<[key |-> "port", value |-> "8080"]>>}
        \cup {<<a>> : a \in sp} \cup {<<a, b>> : a, b \in sp}

LineKinds ==
    {"config.properties", "application.yml", "application.yaml", "application.properties"}

LineFiles ==
    [dir : {"src/main/resources", "target/classes"}, kind : LineKinds, lines : PropertyLines]

\* props[key.strip()] = value.strip(), with the first assignment kept.
SetDefaultLine(p, line, src) ==
    IF line.key \in DOMAIN p THEN p
    ELSE [k \in DOMAIN p \cup {line.key} |->
             IF k = line.key THEN [value |-> line.value, source |-> src] ELSE p[k]]

\* props[key.strip()] = value.strip()
AssignLine(p, line, src) ==
    [k \in DOMAIN p \cup {line.key} |->
        IF k = line.key THEN [value |-> line.value, source |-> src] ELSE p[k]]

\* for line in f: ... ; for a YAML file props.update(dict(items))
RECURSIVE AssignLines(_, _, _, _)
AssignLines(p, lines, l, src) ==
    IF l > Len(lines) THEN p
    ELSE AssignLines(AssignLine(p, lines[l], src), lines, l + 1, src)

\* One of the loops over the files a pattern matches, in listing order,
\* those with 'target' in their path skipped.
RECURSIVE MergeLinesOfKind(_, _, _, _)
MergeLinesOfKind(p, files, kind, i) ==
    IF i > Len(files) THEN p
    ELSE MergeLinesOfKind(IF files[i].kind = kind /\ ~ContainsTarget(files[i].dir)
                          THEN AssignLines(p, files[i].lines, 1, i)
                          ELSE p,
                          files, kind, i + 1)

\* config_files, then yml_files = rglob('application*.yml') +
\* rglob('application*.yaml'), then prop_files.
FindApplicationPropertiesByLine(files) ==
    MergeLinesOfKind(
        MergeLinesOfKind(
            MergeLinesOfKind(
                MergeLinesOfKind(<<>>, files, "config.properties", 1),
                files, "application.yml", 1),
            files, "application.yaml", 1),
        files, "application.properties", 1)

InitMerge ==
    /\ variant = "find_application_properties"
    /\ pc = "lines"
    /\ exception = ""
    /\ tree \in UNION {[1 .. n -> LineFiles] : n \in 0 .. MaxPropertyFiles}
    /\ outputs = <<>>
    /\ AnalyzeIdle
    /\ ScanIdle /\ FailIdle /\ RenderIdle /\ DiagramIdle /\ ExtractIdle

FindApplicationPropertiesLines ==
    /\ pc = "lines"
    /\ props' = FindApplicationPropertiesByLine(tree)
    /\ pc' = "done"
    /\ UNCHANGED <<service_paths, root_idx, service_name, services, exception>>
    /\ AnalyzeFrame

NextMerge == FindApplicationPropertiesLines

SpecMerge == InitMerge /\ [][NextMerge]_vars

(***************************************************************************)
(* Properties of the merge (specification SpecMerge)                       *)
(***************************************************************************)
\* The position of a file's group in the processing order.
GroupRank(kind) ==
    CASE kind = "config.properties" -> 1
      [] kind = "application.yml" -> 2
      [] kind = "application.yaml" -> 3
      [] kind = "application.properties" -> 4

\* File i is processed after file j.
ProcessedAfter(i, j) ==
    \/ GroupRank(tree[i].kind) > GroupRank(tree[j].kind)
    \/ GroupRank(tree[i].kind) = GroupRank(tree[j].kind) /\ i > j

LinesWithKey(i, k) == {l \in DOMAIN tree[i].lines : tree[i].lines[l].key = k}

\* The processed files that define key k.
DefiningFiles(k) ==
    {i \in DOMAIN tree : ~ContainsTarget(tree[i].dir) /\ LinesWithKey(i, k) # {}}

LastDefiningFile(k) ==
    CHOOSE i \in DefiningFiles(k) : \A j \in DefiningFiles(k) \ {i} : ProcessedAfter(i, j)

LastLineWithKey(i, k) ==
    CHOOSE l \in LinesWithKey(i, k) : \A m \in LinesWithKey(i, k) : m <= l

\* C23: when a key is defined in several configuration files, the merged
\* mapping holds the value from the file processed last, the order being all
\* config.properties files, then the application*.yml/.yaml files, then the
\* application*.properties files, each group in listing order; within one
\* file a later line overrides an earlier line with the same key.
C23_LastProcessedFileWins ==
    pc = "done" =>
        /\ DOMAIN props = {k \in PropertyKeys : DefiningFiles(k) # {}}
        /\ \A k \in DOMAIN props :
               /\ props[k].source = LastDefiningFile(k)
               /\ props[k].value =
                      tree[LastDefiningFile(k)].lines[
                          LastLineWithKey(LastDefiningFile(k), k)].value

\* C23, its case: server.port is set to 8080 and then to 9090 by an
\* application.properties file listed first, and to 8080 by a
\* config.properties file listed second; the merged value is 9090.
C23_LaterGroupOverridesLaterListing ==
    /\ pc = "done"
    /\ Len(tree) = 2
    /\ tree[1].kind = "application.properties" /\ tree[2].kind = "config.properties"
    /\ tree[1].dir = "src/main/resources" /\ tree[2].dir = "src/main/resources"
    /\ tree[1].lines = <<[key |-> "server.port", value |-> "8080"],
                         [key |-> "server.port", value |-> "9090"]>>
    /\ tree[2].lines = <<[key |-> "server.port", value |-> "8080"]>>
    /\ props["server.port"].value = "9090"

(***************************************************************************)
(* find_autowired_dependencies (c4-workspace/validated-c4-diagrams.py)     *)
(***************************************************************************)
\* Most field declarations of a class text.
MaxDecls == 2

\* Most parameters of the constructor of a class text.
MaxParams == 3

\* A field declaration of the class text: whether @Autowired precedes it,
\* its access modifier ("" for a package-private field), the shape of its
\* type (a simple name such as PaymentService, or a generic type such as
\* List<PaymentHandler>), its identifier, and whether the whole line is
\* commented out (then it declares nothing).
FieldDecls ==
    [autowired : BOOLEAN, modifier : {"private", ""}, type : {"simple", "generic"},
     name : {"paymentService", "handlers"}, commented : BOOLEAN]

\* The parameter names of the constructor `public C(T1 p1, ..., Tn pn)`,
\* each parameter a simple `Type name`.
ParamLists == {[i \in 1 .. n |-> <<"p", i>>] : n \in 0 .. MaxParams}

\* A class text: its field declarations in order, and the parameter lists of
\* its constructors (none or one).
ClassTexts ==
    [fields : UNION {[1 .. n -> FieldDecls] : n \in 0 .. MaxDecls},
     constructors : {<<>>} \cup {<<ps>> : ps \in ParamLists}]

\* r'@Autowired\s+(?:private|protected|public)\s+\w+\s+(\w+);' matches at
\* the declaration: the annotation, one of the three modifiers, one word for
\* the type, the name, the semicolon. The pattern sees the text, commented
\* out or not.
AutowiredPatternMatches(d) ==
    /\ d.autowired
    /\ d.modifier \in {"private", "protected", "public"}
    /\ d.type = "simple"

\* for field_name in autowired_matches: dependencies.append({...})
RECURSIVE AutowiredFieldEdges(_, _, _)
AutowiredFieldEdges(fields, i, source_class) ==
    IF i > Len(fields) THEN <<>>
    ELSE (IF AutowiredPatternMatches(fields[i])
          THEN <<[from |-> source_class, to |-> fields[i].name, type |-> "autowired"]>>
          ELSE <<>>)
         \o AutowiredFieldEdges(fields, i + 1, source_class)

\* r'public\s+C\s*\([^)]*(\w+\s+\w+)[^)]*\)': one match per constructor with
\* at least one parameter; the first [^)]* is greedy, so the group is the
\* end of the last parameter: the last letter of its type and its name.
\* dep_name = param_parts[1] is the name of the last parameter.
ConstructorEdges(constructors, source_class) ==
    LET matched == SelectSeq(constructors, LAMBDA ps : Len(ps) >= 1)
    IN  [c \in DOMAIN matched |->
            [from |-> source_class, to |-> matched[c][Len(matched[c])],
             type |-> "constructor"]]

SourceClass == "OrderController"

InitInjection ==
    /\ variant = "find_autowired_dependencies"
    /\ pc = "autowired_pattern"
    /\ exception = ""
    /\ text \in ClassTexts
    /\ extracted = <<>>
    /\ dependencies = <<>>
    /\ ref_components = <<>> /\ ref_dependencies = <<>>
    /\ ScanIdle /\ AnalyzeIdle /\ RenderIdle /\ DiagramIdle /\ RunIdle

InjectionFrame ==
    /\ UNCHANGED <<variant, exception, text, extracted, ref_components, ref_dependencies>>
    /\ UNCHANGED <<scanVars, analyzeVars, renderVars, diagramVars, runVars>>

\* # Look for @Autowired fields
FindAutowiredFields ==
    /\ pc = "autowired_pattern"
    /\ dependencies' = AutowiredFieldEdges(text.fields, 1, SourceClass)
    /\ pc' = "constructor_pattern"
    /\ InjectionFrame

\* # Look for constructor injection; return dependencies
FindConstructorInjection ==
    /\ pc = "constructor_pattern"
    /\ dependencies' = dependencies \o ConstructorEdges(text.constructors, SourceClass)
    /\ pc' = "done"
    /\ InjectionFrame

NextInjection ==
    \/ FindAutowiredFields
    \/ FindConstructorInjection

SpecInjection == InitInjection /\ [][NextInjection]_vars

(***************************************************************************)
(* Properties of find_autowired_dependencies (specification SpecInjection) *)
(***************************************************************************)
EdgesOfType(t) == SelectSeq(dependencies, LAMBDA e : e.type = t)

\* The @Autowired-annotated field declarations of the text.
AutowiredFieldDecls ==
    {i \in DOMAIN text.fields : text.fields[i].autowired /\ ~text.fields[i].commented}

\* C24: find_autowired_dependencies(content, C) produces, for every
\* @Autowired-annotated field declaration in content, exactly one edge
\* {from: C, to: the field's identifier, type: autowired}, and no autowired
\* edge for anything else.
C24_OneEdgePerAutowiredField ==
    pc = "done" =>
        /\ \A e \in Range(EdgesOfType("autowired")) : e.from = SourceClass
        /\ \A n \in {"paymentService", "handlers"} :
               Cardinality({e \in DOMAIN EdgesOfType("autowired") :
                               EdgesOfType("autowired")[e].to = n})
               = Cardinality({i \in AutowiredFieldDecls : text.fields[i].name = n})

\* C25: for a class C whose text has a constructor public C(T1 p1, ..., Tn pn)
\* with n >= 1 simple parameters, find_autowired_dependencies produces one
\* constructor edge per parameter: exactly the n edges
\* {from: C, to: pi, type: constructor}.
C25_OneEdgePerConstructorParameter ==
    (pc = "done" /\ text.constructors # <<>> /\ Len(text.constructors[1]) >= 1) =>
        /\ Len(EdgesOfType("constructor")) = Len(text.constructors[1])
        /\ {e.to : e \in Range(EdgesOfType("constructor"))} = Range(text.constructors[1])
        /\ \A e \in Range(EdgesOfType("constructor")) : e.from = SourceClass

(***************************************************************************)
(* Properties of the naming fallbacks (specification SpecClassify)         *)
(***************************************************************************)
ServiceSuffixes == {"Service", "ServiceImpl", "Manager", "Processor"}

\* C26: in complete-c4-analyzer and hybrid-analyze, every file that matches
\* none of the annotation rules, whose base name ends with Service,
\* ServiceImpl, Manager or Processor and whose text does not contain
\* "interface", is added to the services collection with inferred = true:
\* one entry per such file, whatever files were classified before it.
C26_ServiceNamedFileIsInferredService ==
    (/\ variant \in {"complete", "hybrid"}
     /\ scanned >= 1
     /\ NoMarker(java_file)
     /\ \E s \in ServiceSuffixes : EndsWith(java_file.stem, s)
     /\ "interface" \notin java_file.content)
    => /\ Occurrences(components["services"], scanned) = 1
       /\ \A j \in DOMAIN components["services"] :
              components["services"][j].file = scanned => components["services"][j].inferred

(***************************************************************************)
(* From the @Autowired fields of a controller to the "calls" lines of the  *)
(* C3 component diagram (c4-workspace/validated-c4-diagrams.py)            *)
(***************************************************************************)
ServiceClasses == {"PaymentService", "AuditLog"}

\* An `@Autowired private <type> <name>;` field of the controller.
InjectedFields == [type : ServiceClasses, name : {"paymentService", "PaymentService"}]

\* The project: OrderController.java with its injected fields, and the
\* files of the @Service classes, in listing order.
CallProjects ==
    [fields : UNION {[1 .. n -> InjectedFields] : n \in 0 .. MaxDecls},
     service_files : {<<>>, <<"PaymentService">>, <<"AuditLog">>,
                      <<"PaymentService", "AuditLog">>, <<"AuditLog", "PaymentService">>}]

\* The edges find_autowired_dependencies returns for the controller: the
\* pattern captures the identifier of the field, not its type.
InjectedFieldEdges(fields, source_class) ==
    [i \in DOMAIN fields |->
        [from |-> source_class, to |-> fields[i].name, type |-> "autowired"]]

\* f'Rel({controller["name"].lower()}, {target_service["name"].lower()}, "calls")\n'
CallsLines(controllers_, services_, d) ==
    {[from |-> LowerName(controllers_[r[1]].name), to |-> LowerName(d[r[2]].to),
      label |-> "calls"] : r \in RelsBetween(controllers_, services_, d)}

InitCalls ==
    /\ variant = "validated"
    /\ pc = "scan_controller"
    /\ exception = ""
    /\ text \in CallProjects
    /\ extracted = <<>>
    /\ scanned = 0
    /\ java_file = ""
    /\ build_file = FALSE
    /\ components = EmptyComponents(KeysValidated)
    /\ dependencies = <<>>
    /\ ref_components = <<>>
    /\ ref_dependencies = <<>>
    /\ puml = <<>>
    /\ total_components = -1
    /\ valid_relationships = 0
    /\ AnalyzeIdle /\ RenderIdle /\ RunIdle

CallsFrame ==
    /\ UNCHANGED <<variant, exception, build_file, ref_components, ref_dependencies>>
    /\ UNCHANGED <<total_components, text, extracted>>
    /\ UNCHANGED <<analyzeVars, renderVars, runVars>>

\* The iteration of analyze_spring_components for OrderController.java.
ScanControllerFile ==
    /\ pc = "scan_controller"
    /\ LET deps == InjectedFieldEdges(text.fields, SourceClass)
           info == [name |-> SourceClass, file |-> 1, dependencies |-> deps]
       IN  /\ components' = Add(components, "rest_controllers", info)
           /\ dependencies' = dependencies \o deps
    /\ java_file' = SourceClass
    /\ scanned' = 1
    /\ pc' = "scan_services"
    /\ UNCHANGED <<puml, valid_relationships>>
    /\ CallsFrame

\* The iterations for the files of the @Service classes; then
\* return components, dependencies.
ScanServiceFiles ==
    /\ pc = "scan_services"
    /\ components' =
           [components EXCEPT !["services"] =
               [i \in DOMAIN text.service_files |->
                   [name |-> text.service_files[i], file |-> i + 1, dependencies |-> <<>>]]]
    /\ scanned' = 1 + Len(text.service_files)
    /\ pc' = "controller_service"
    /\ UNCHANGED <<java_file, dependencies, puml, valid_relationships>>
    /\ CallsFrame

\* create_c3_component_diagram: the Controller -> Service relationships.
EmitControllerServiceCalls ==
    /\ pc = "controller_service"
    /\ puml' = [rels |-> CallsLines(C3Controllers(components), C3Services(components),
                                    dependencies)]
    /\ valid_relationships' =
           Cardinality(RelsBetween(C3Controllers(components), C3Services(components),
                                   dependencies))
    /\ pc' = "service_repository"
    /\ UNCHANGED <<scanned, java_file, components, dependencies>>
    /\ CallsFrame

NextCalls ==
    \/ ScanControllerFile
    \/ ScanServiceFiles
    \/ EmitControllerServiceCalls

SpecCalls == InitCalls /\ [][NextCalls]_vars

(***************************************************************************)
(* Properties of the "calls" lines (specification SpecCalls)               *)
(***************************************************************************)
\* C27: a REST controller C, among the displayed controllers, that has an
\* @Autowired field whose declared type is a known service class S, among
\* the displayed services, yields a Rel(c, s, "calls") line from C to S in
\* the C3 component diagram and is counted as a validated relationship.
C27_AutowiredServiceYieldsCallsLine ==
    pc = "service_repository" =>
        \A i \in DOMAIN text.fields :
            text.fields[i].type \in Range(text.service_files) =>
                /\ [from |-> LowerName(SourceClass), to |-> LowerName(text.fields[i].type),
                    label |-> "calls"] \in puml.rels
                /\ valid_relationships >= 1

(***************************************************************************)
(* The identifiers of the emitted diagrams: create_c4_code_diagram         *)
(* (c4-four-diagrams.py), create_detailed_architecture_diagram             *)
(* (deep-analyze.py), create_c3_component_diagram (fixed-c4-diagrams.py,   *)
(* validated-c4-diagrams.py)                                               *)
(***************************************************************************)
Named(n) == [name |-> n]

\* The classified components a diagram is drawn from: at most one class per
\* collection, up to two entities.
DiagramInputs ==
    [rest_controllers : {<<>>, <<Named("OrderController")>>},
     mvc_controllers : {<<>>, <<Named("OrderController")>>},
     services : {<<>>, <<Named("PaymentService")>>},
     components : {<<>>, <<Named("AuditLog")>>},
     repositories : {<<>>, <<Named("orderRepository")>>},
     jpa_repositories : {<<>>, <<Named("orderRepository")>>},
     entities : {<<>>, <<Named("Payment")>>, <<Named("Order")>>,
                 <<Named("Payment"), Named("Merchant")>>}]

DiagramEdges ==
    {<<>>, <<[from |-> "OrderController", to |-> "PaymentService", type |-> "autowired"]>>}

NameList(list) == [i \in DOMAIN list |-> list[i].name]

\* xs or default
OrDefault(xs, default) == IF xs = <<>> THEN default ELSE xs

\* {f(name) : name in list}, f = lower() followed by a suffix
Ids(names, suffix) == {LowerName(names[i]) \o suffix : i \in DOMAIN names}

Diagram(declared, rels) == [declared |-> declared, rels |-> rels]

\* create_c3_component_diagram of fixed-c4-diagrams.py
FixedC3Diagram(c) ==
    LET controllers == OrDefault(NameList(Take(c.rest_controllers, 4)),
                                 <<"PaymentController", "MerchantController">>)
        services_ == OrDefault(NameList(Take(c.services, 4)),
                               <<"PaymentService", "NotificationService">>)
        repos == OrDefault(NameList(Take(c.repositories \o c.jpa_repositories, 3)),
                           <<"PaymentRepository">>)
    IN  Diagram({"web_app", "database", "raast", "bank"}
                    \cup Ids(controllers, "") \cup Ids(services_, "") \cup Ids(repos, ""),
                {<<"customer", "web_app">>}
                    \cup (Ids(controllers, "") \X Ids(Take(services_, 2), ""))
                    \cup (Ids(services_, "") \X Ids(Take(repos, 2), ""))
                    \cup (Ids(repos, "") \X {"database"})
                    \cup (Ids(Take(services_, 2), "") \X {"raast", "bank"}))

\* create_c3_component_diagram of validated-c4-diagrams.py
ValidatedC3Diagram(c, d) ==
    LET controllers == Take(c.rest_controllers, 4)
        services_ == Take(c.services, 6)
        repos == Take(c.repositories \o c.jpa_repositories, 4)
    IN  Diagram({"web_app", "database", "raast_system", "bank_api"}
                    \cup Ids(NameList(controllers), "") \cup Ids(NameList(services_), "")
                    \cup Ids(NameList(repos), "_repo"),
                {<<"customer", "web_app">>}
                    \cup {<<LowerName(controllers[r[1]].name), LowerName(d[r[2]].to)>> :
                            r \in RelsBetween(controllers, services_, d)}
                    \cup {<<LowerName(services_[r[1]].name), LowerName(d[r[2]].to) \o "_repo">> :
                            r \in RelsBetween(services_, repos, d)}
                    \cup (Ids(NameList(repos), "_repo") \X {"database"})
                    \cup {<<LowerName(services_[r[1]].name), r[2]>> :
                            r \in ExternalRels(services_)})

\* create_detailed_architecture_diagram of deep-analyze.py
DeepArchitectureDiagram(c) ==
    LET repos == c.repositories # <<>> \/ c.jpa_repositories # <<>>
        repo_name == IF c.repositories # <<>>
                     THEN LowerName(c.repositories[1].name)
                     ELSE LowerName(c.jpa_repositories[1].name) \o "_jpa"
    IN  Diagram({"user", "microservice", "database"}
                    \cup (IF c.rest_controllers # <<>> \/ c.mvc_controllers # <<>>
                          THEN {"api"} \cup Ids(NameList(Take(c.rest_controllers, 6)), "")
                                   \cup Ids(NameList(Take(c.mvc_controllers, 3)), "_mvc")
                          ELSE {})
                    \cup (IF c.services # <<>> \/ c.components # <<>>
                          THEN {"business"} \cup Ids(NameList(Take(c.services, 8)), "")
                                   \cup Ids(NameList(Take(c.components, 5)), "_comp")
                          ELSE {})
                    \cup (IF repos
                          THEN {"data"} \cup Ids(NameList(Take(c.repositories, 5)), "")
                                   \cup Ids(NameList(Take(c.jpa_repositories, 5)), "_jpa")
                          ELSE {}),
                {<<"user", "api">>}
                    \cup (IF c.rest_controllers # <<>> /\ c.services # <<>>
                          THEN {<<LowerName(c.rest_controllers[1].name),
                                  LowerName(c.services[1].name)>>}
                          ELSE {})
                    \cup (IF c.services # <<>> /\ repos
                          THEN {<<LowerName(c.services[1].name), repo_name>>}
                          ELSE {})
                    \cup (IF repos THEN {<<"data", "database">>} ELSE {}))

\* any(term in e['name'].lower() for term in ['payment', 'transaction', 'merchant', 'account'])
IsKeyEntity(e) == e.name \in {"Payment", "Merchant"}

\* create_c4_code_diagram of c4-four-diagrams.py
FourCodeDiagram(c) ==
    LET found == SelectSeq(c.entities, IsKeyEntity)
        key_entities ==
            IF found # <<>> THEN found
            ELSE IF c.entities # <<>> THEN Take(c.entities, 4)
            ELSE <<Named("Payment"), Named("Transaction")>>
    IN  Diagram({"payment_component", "payment_service", "process_payment",
                 "validate_transaction", "update_balances", "log_transaction", "entities",
                 "repositories", "external_apis", "raast_client", "bank_client",
                 "notification_client"}
                    \cup Ids(NameList(Take(key_entities, 4)), "_ent")
                    \cup (IF c.repositories # <<>> \/ c.jpa_repositories # <<>>
                          THEN Ids(NameList(Take(c.repositories \o c.jpa_repositories, 2)),
                                   "_repo")
                          ELSE {"payment_repo", "merchant_repo"}),
                ({"process_payment"}
                    \X {"validate_transaction", "update_balances", "log_transaction",
                        "payment_repo", "merchant_repo", "raast_client", "bank_client",
                        "notification_client"})
                    \cup {<<"payment_repo", "payment_ent">>, <<"merchant_repo", "merchant_ent">>})

DiagramFunctions ==
    {"fixed_c4.create_c3_component_diagram", "validated.create_c3_component_diagram",
     "deep.create_detailed_architecture_diagram", "c4_four.create_c4_code_diagram"}

InitRelIds ==
    /\ variant \in DiagramFunctions
    /\ pc = "create"
    /\ exception = ""
    /\ components \in DiagramInputs
    /\ dependencies \in
           IF variant = "validated.create_c3_component_diagram" THEN DiagramEdges ELSE {<<>>}
    /\ ref_components = <<>> /\ ref_dependencies = <<>>
    /\ scanned = 0 /\ java_file = "" /\ build_file = FALSE
    /\ DiagramIdle
    /\ AnalyzeIdle /\ RenderIdle /\ RunIdle /\ ExtractIdle

Emit(v, diagram) ==
    /\ variant = v
    /\ pc = "create"
    /\ puml' = diagram
    /\ pc' = "done"
    /\ UNCHANGED <<variant, exception, scanVars, failVars, total_components,
                   valid_relationships>>
    /\ UNCHANGED <<analyzeVars, renderVars, runVars, extractVars>>

CreateC3ComponentDiagramFixed ==
    Emit("fixed_c4.create_c3_component_diagram", FixedC3Diagram(components))

CreateC3ComponentDiagramValidated ==
    Emit("validated.create_c3_component_diagram",
         ValidatedC3Diagram(components, dependencies))

CreateDetailedArchitectureDiagram ==
    Emit("deep.create_detailed_architecture_diagram", DeepArchitectureDiagram(components))

CreateC4CodeDiagram ==
    Emit("c4_four.create_c4_code_diagram", FourCodeDiagram(components))

NextRelIds ==
    \/ CreateC3ComponentDiagramFixed
    \/ CreateC3ComponentDiagramValidated
    \/ CreateDetailedArchitectureDiagram
    \/ CreateC4CodeDiagram

SpecRelIds == InitRelIds /\ [][NextRelIds]_vars

(***************************************************************************)
(* Properties of the identifiers (specification SpecRelIds)                *)
(***************************************************************************)
\* C28: in every emitted diagram, each identifier used as the source or
\* target of a Rel line is declared by an element statement of the same
\* diagram, for every set of classified components, the empty set included.
C28_RelEndsAreDeclared ==
    pc = "done" =>
        \A r \in puml.rels : r[1] \in puml.declared /\ r[2] \in puml.declared

(***************************************************************************)
(* SpringBootAnalyzer.generate_structurizr_dsl                             *)
(* (c4-generator/analyze_springboot.py): the identifiers of the model      *)
(* block                                                                   *)
(***************************************************************************)
\* Most services of one analysis.
MaxServices == 2

\* Service names (names of service root directories).
ServiceNameSamples ==
    {<<"a">>, <<"b">>, <<"a", "-", "b">>, <<"a", "_", "b">>, <<"a", "_", "d", "b">>,
     <<"u", "s", "e", "r">>}

\* self.services in insertion order: distinct names, each with or without a
\* detected database.
ServiceTables ==
    {s \in UNION {[1 .. n -> [name : ServiceNameSamples, database : BOOLEAN]] :
                     n \in 0 .. MaxServices} :
        \A i, j \in DOMAIN s : i # j => s[i].name # s[j].name}

\* The identifiers generate_structurizr_dsl assigns with `<id> = ...`, in
\* the order of the written lines.
RECURSIVE ServiceElementIds(_)
ServiceElementIds(table) ==
    IF table = <<>> THEN <<>>
    ELSE LET service_id == sanitize_id(Head(table).name)
             db_id == service_id \o <<"_", "d", "b">>
         IN  <<service_id>>
                 \o (IF Head(table).database THEN <<db_id>> ELSE <<>>)
                 \o ServiceElementIds(Tail(table))

ModelElementIds(table) == <<<<"u", "s", "e", "r">>>> \o ServiceElementIds(table)

InitDsl ==
    /\ variant = "generate_structurizr_dsl"
    /\ pc = "call"
    /\ exception = ""
    /\ services \in ServiceTables
    /\ service_paths = <<>> /\ root_idx = 0 /\ service_name = "" /\ props = <<>>
    /\ ScanIdle /\ FailIdle /\ RenderIdle /\ DiagramIdle /\ RunIdle /\ ExtractIdle

GenerateStructurizrDsl ==
    /\ variant = "generate_structurizr_dsl"
    /\ pc = "call"
    /\ puml' = ModelElementIds(services)
    /\ pc' = "done"
    /\ UNCHANGED <<variant, exception, total_components, valid_relationships>>
    /\ UNCHANGED <<scanVars, failVars, analyzeVars, renderVars, runVars, extractVars>>

NextDsl == GenerateStructurizrDsl

SpecDsl == InitDsl /\ [][NextDsl]_vars

(***************************************************************************)
(* Properties of the model block (specification SpecDsl)                   *)
(***************************************************************************)
\* C29: all elements of the model block written by generate_structurizr_dsl
\* receive pairwise distinct identifiers: distinct service names map to
\* distinct service identifiers and no service identifier equals the
\* <service_id>_db identifier of another service's database element.
C29_ModelIdentifiersAreDistinct ==
    pc = "done" => \A i, j \in DOMAIN puml : i # j => puml[i] # puml[j]

(***************************************************************************)
(* The text of the component diagrams: the diagram assembly of             *)
(* fixed-analyze.py and create_c3_component_diagram of                     *)
(* fixed-c4-diagrams.py and validated-c4-diagrams.py.  The text is a       *)
(* sequence of pieces: statements, and the character sequences written     *)
(* between them.                                                           *)
(***************************************************************************)
Piece(kind, str) == [kind |-> kind, text |-> str]

\* The line break "\n" of a triple-quoted or ordinary literal.
LineFeed == Piece("end", "\n")

\* The two characters backslash and n, which '\\n' denotes in a Python
\* literal that is not raw.
BackslashN == Piece("end", "\\n")

Fixed(str) == <<Piece("fixed", str), LineFeed>>

\* for name in names: puml_content += f'    Component({name.lower()}<suffix>, ...)\\n'
RECURSIVE ComponentPieces(_, _)
ComponentPieces(names, suffix) ==
    IF names = <<>> THEN <<>>
    ELSE <<Piece("component", "Component(" \o LowerName(Head(names)) \o suffix \o ")"),
           BackslashN>>
             \o ComponentPieces(Tail(names), suffix)

RelPiece(from, to) == <<Piece("rel", "Rel(" \o from \o ", " \o to \o ")"), BackslashN>>

\* for a in sources: for b in targets: puml_content += f'Rel({a.lower()}, {b.lower()}, ...)\\n'
\* k runs over the pairs in the order of the loops.
RECURSIVE NestedRelPieces(_, _, _)
NestedRelPieces(sources, targets, k) ==
    IF k > Len(sources) * Len(targets) THEN <<>>
    ELSE RelPiece(LowerName(sources[((k - 1) \div Len(targets)) + 1]),
                  LowerName(targets[((k - 1) % Len(targets)) + 1]))
             \o NestedRelPieces(sources, targets, k + 1)

\* for name in names: puml_content += f'Rel({name.lower()}<suffix>, database, ...)\\n'
RECURSIVE DatabaseRelPieces(_, _)
DatabaseRelPieces(names, suffix) ==
    IF names = <<>> THEN <<>>
    ELSE RelPiece(LowerName(Head(names)) \o suffix, "database")
             \o DatabaseRelPieces(Tail(names), suffix)

\* The diagram text assembled by fixed-analyze.py from the lists of names.
FixedAnalyzeText(c) ==
    LET layer(title, names) ==
            IF names = <<>> THEN <<>>
            ELSE <<Piece("comment", title), BackslashN>> \o ComponentPieces(Take(names, 5), "")
    IN  Fixed("Container_Boundary(webapp, \"Web Application\") {")
            \o layer("' === Controllers ===", c.controllers)
            \o layer("' === Services ===", c.services)
            \o layer("' === Repositories ===", c.repositories)
            \o <<Piece("brace", "}"), LineFeed, LineFeed>>
            \o Fixed("' Add relationships")
            \o NestedRelPieces(Take(c.controllers, 3), Take(c.services, 2), 1)
            \o NestedRelPieces(Take(c.services, 2), Take(c.repositories, 2), 1)
            \o DatabaseRelPieces(Take(c.repositories, 2), "")
            \o <<LineFeed>> \o Fixed("note right of webapp")

\* for service in services[:2]: Rel(service, raast) and Rel(service, bank)
RECURSIVE FixedExternalRelPieces(_)
FixedExternalRelPieces(names) ==
    IF names = <<>> THEN <<>>
    ELSE RelPiece(LowerName(Head(names)), "raast") \o RelPiece(LowerName(Head(names)), "bank")
             \o FixedExternalRelPieces(Tail(names))

\* The text written by create_c3_component_diagram of fixed-c4-diagrams.py.
FixedC3Text(c) ==
    LET controllers == OrDefault(NameList(Take(c.rest_controllers, 4)),
                                 <<"PaymentController", "MerchantController">>)
        services_ == OrDefault(NameList(Take(c.services, 4)),
                               <<"PaymentService", "NotificationService">>)
        repos == OrDefault(NameList(Take(c.repositories \o c.jpa_repositories, 3)),
                           <<"PaymentRepository">>)
    IN  Fixed("Container_Boundary(web_app, \"Web Application\") {")
            \o <<Piece("comment", "' === API Layer ==="), BackslashN>>
            \o ComponentPieces(controllers, "")
            \o <<BackslashN, Piece("comment", "' === Business Layer ==="), BackslashN>>
            \o ComponentPieces(services_, "")
            \o <<BackslashN, Piece("comment", "' === Data Layer ==="), BackslashN>>
            \o ComponentPieces(repos, "")
            \o <<Piece("brace", "}"), LineFeed, LineFeed>>
            \o Fixed("ContainerDb(database)") \o Fixed("Rel(customer, web_app)")
            \o NestedRelPieces(controllers, Take(services_, 2), 1)
            \o NestedRelPieces(services_, Take(repos, 2), 1)
            \o DatabaseRelPieces(repos, "")
            \o FixedExternalRelPieces(Take(services_, 2))
            \o <<LineFeed>> \o Fixed("note right of web_app")

\* for x in sources: for dep in [d for d in dependencies if d['from'] == x['name']]:
\* a Rel line when dep['to'] names an entry of targets.  k runs over the
\* pairs (source, edge) in the order of the loops.
RECURSIVE DependencyRelPieces(_, _, _, _, _)
DependencyRelPieces(sources, targets, d, suffix, k) ==
    IF k > Len(sources) * Len(d) THEN <<>>
    ELSE LET s == ((k - 1) \div Len(d)) + 1
             e == ((k - 1) % Len(d)) + 1
         IN  (IF <<s, e>> \in RelsBetween(sources, targets, d)
              THEN RelPiece(LowerName(sources[s].name), LowerName(d[e].to) \o suffix)
              ELSE <<>>)
                 \o DependencyRelPieces(sources, targets, d, suffix, k + 1)

\* for service in services: Rel to raast_system and to bank_api by keyword
RECURSIVE ValidatedExternalRelPieces(_, _)
ValidatedExternalRelPieces(services_, k) ==
    IF k > Len(services_) THEN <<>>
    ELSE (IF <<k, "raast_system">> \in ExternalRels(services_)
          THEN RelPiece(LowerName(services_[k].name), "raast_system") ELSE <<>>)
             \o (IF <<k, "bank_api">> \in ExternalRels(services_)
                 THEN RelPiece(LowerName(services_[k].name), "bank_api") ELSE <<>>)
             \o ValidatedExternalRelPieces(services_, k + 1)

\* The text written by create_c3_component_diagram of validated-c4-diagrams.py.
ValidatedC3Text(c, d) ==
    LET controllers == C3Controllers(c)
        services_ == C3Services(c)
        repos == C3Repos(c)
        layer(title, list, suffix, blank) ==
            IF list = <<>> THEN <<>>
            ELSE <<Piece("comment", title), BackslashN>>
                     \o ComponentPieces(NameList(list), suffix)
                     \o (IF blank THEN <<BackslashN>> ELSE <<>>)
    IN  Fixed("Container_Boundary(web_app, \"Web Application\") {")
            \o layer("' === API Layer - Controllers ===", controllers, "", TRUE)
            \o layer("' === Business Layer - Services ===", services_, "", TRUE)
            \o layer("' === Data Layer - Repositories ===", repos, "_repo", FALSE)
            \o <<Piece("brace", "}"), LineFeed, LineFeed>>
            \o Fixed("ContainerDb(database)") \o Fixed("Rel(customer, web_app)")
            \o DependencyRelPieces(controllers, services_, d, "", 1)
            \o DependencyRelPieces(services_, repos, d, "_repo", 1)
            \o DatabaseRelPieces(NameList(repos), "_repo")
            \o ValidatedExternalRelPieces(services_, 1)
            \o <<LineFeed>> \o Fixed("note right of web_app")

\* The lists of class names fixed-analyze.py collects.
NameLists ==
    [controllers : {<<>>, <<"OrderController">>, <<"OrderController", "PaymentController">>},
     services : {<<>>, <<"PaymentService">>, <<"PaymentService", "NotificationService">>},
     repositories : {<<>>, <<"orderRepository">>, <<"orderRepository", "PaymentRepository">>}]

\* The classified components of the two create_c3_component_diagram.
C3TextInputs ==
    [rest_controllers : {<<>>, <<Named("OrderController")>>},
     services : {<<>>, <<Named("PaymentService")>>},
     repositories : {<<>>, <<Named("orderRepository")>>},
     jpa_repositories : {<<>>, <<Named("orderRepository")>>}]

TextFunctions ==
    {"fixed_analyze", "fixed_c4.create_c3_component_diagram",
     "validated.create_c3_component_diagram"}

InitText ==
    /\ variant \in TextFunctions
    /\ pc = "create"
    /\ exception = ""
    /\ components \in IF variant = "fixed_analyze" THEN NameLists ELSE C3TextInputs
    /\ dependencies \in
           IF variant = "validated.create_c3_component_diagram" THEN DiagramEdges ELSE {<<>>}
    /\ ref_components = <<>> /\ ref_dependencies = <<>>
    /\ scanned = 0 /\ java_file = "" /\ build_file = FALSE
    /\ DiagramIdle
    /\ AnalyzeIdle /\ RenderIdle /\ RunIdle /\ ExtractIdle

WriteFixedAnalyzeDiagram == Emit("fixed_analyze", FixedAnalyzeText(components))

WriteFixedC3Diagram ==
    /\ variant = "fixed_c4.create_c3_component_diagram"
    /\ components \in C3TextInputs
    /\ Emit(variant, FixedC3Text(components))

WriteValidatedC3Diagram ==
    /\ variant = "validated.create_c3_component_diagram"
    /\ components \in C3TextInputs
    /\ Emit(variant, ValidatedC3Text(components, dependencies))

NextText ==
    \/ WriteFixedAnalyzeDiagram
    \/ WriteFixedC3Diagram
    \/ WriteValidatedC3Diagram

SpecText == InitText /\ [][NextText]_vars

(***************************************************************************)
(* Properties of the diagram text (specification SpecText)                 *)
(***************************************************************************)
\* C30: in the generated component diagrams every Component, comment and
\* Rel statement appended by the loops is terminated by a line break, so
\* that each statement is on a line of its own, and the closing brace of the
\* boundary is on a line of its own.
C30_LoopStatementsEndWithLineBreak ==
    pc = "done" =>
        \A i \in DOMAIN puml :
            /\ puml[i].kind \in {"component", "comment", "rel"} =>
                   i + 1 \in DOMAIN puml /\ puml[i + 1] = LineFeed
            /\ puml[i].kind = "brace" =>
                   /\ i - 1 \in DOMAIN puml /\ puml[i - 1] = LineFeed
                   /\ i + 1 \in DOMAIN puml /\ puml[i + 1] = LineFeed

=============================================================================
